---------------------------- MODULE Spec2Model ----------------------------
(***************************************************************************)
(* Model of the investment-decision engine of stockAssessApp:              *)
(*   - the metrics engine        (services.CalculateMetrics)               *)
(*   - the data-sourcing pipeline (ExternalAPIService.FetchAllStockData)   *)
(*   - the stock handler          (UpdateSingleStock, UpdateAllStocks)     *)
(*   - the scheduler              (updateStocksWithFrequency, updateStock) *)
(*   - the settings handler       (UpdateSettings)                         *)
(*                                                                         *)
(* float64 values are modelled as exact rationals <<n, d>> in lowest terms *)
(* with d > 0; rounding of IEEE arithmetic is not modelled.                *)
(***************************************************************************)
EXTENDS Integers, Sequences, FiniteSets, TLC

(***************************************************************************)
(* Bounds of the model.                                                    *)
(***************************************************************************)
\* number of positions stored in the database
NumStocks == 2
\* number of position refreshes (pipeline calls) made in one behaviour
MaxCalls == 2

(***************************************************************************)
(* Exact rational arithmetic standing in for float64.                      *)
(***************************************************************************)
RECURSIVE GCD(_, _)
GCD(a, b) == IF b = 0 THEN a ELSE GCD(b, a % b)

Abs(n) == IF n < 0 THEN -n ELSE n

Sign(d) == IF d < 0 THEN -1 ELSE 1

Reduce(n, d, g) == <<n \div g, d \div g>>

Norm(n, d) == Reduce(Sign(d) * n, Sign(d) * d, GCD(Abs(n), Abs(d)))

I(n) == <<n, 1>>
Zero == I(0)
RAdd(x, y) == Norm(x[1] * y[2] + y[1] * x[2], x[2] * y[2])
RSub(x, y) == Norm(x[1] * y[2] - y[1] * x[2], x[2] * y[2])
RMul(x, y) == Norm(x[1] * y[1], x[2] * y[2])
RDiv(x, y) == Norm(x[1] * y[2], x[2] * y[1])
RNeg(x) == <<-x[1], x[2]>>
RAbs(x) == <<Abs(x[1]), x[2]>>
RLt(x, y) == x[1] * y[2] < y[1] * x[2]
RGt(x, y) == RLt(y, x)
RLe(x, y) == ~RLt(y, x)
RGe(x, y) == ~RLt(x, y)

(***************************************************************************)
(* Program constants.                                                      *)
(***************************************************************************)
\* sentinel written by mockStockData when no data is available
Unavailable == "N/A"
Assessments == {"Add", "Hold", "Trim", "Sell"}
\* EV above which the assessment is Add
AddThreshold == 7
\* EV above which the assessment is Trim rather than Sell
SellThreshold == -5
\* cap of the half-Kelly weight
HalfKellyCap == 15
\* target EV of the buy zone
TargetEV == 15
\* hard-coded EV-delta threshold of the handler path
HandlerAlertThreshold == 10
\* default alert threshold written by InitializePortfolioSettings
DefaultAlertThreshold == 10
\* number of attempts of the generative-provider request
GrokAttempts == 3

(***************************************************************************)
(* Metrics engine.                                                         *)
(***************************************************************************)
\* the bands as they would be if an EV of exactly 0 counted as Hold
AssessmentOfHoldingAtZero(ev) ==
    IF RGt(ev, I(AddThreshold)) THEN "Add"
    ELSE IF RGe(ev, Zero) THEN "Hold"
    ELSE IF RGt(ev, I(SellThreshold)) THEN "Trim"
    ELSE "Sell"

\* the if / else-if chain over the expected value
AssessmentOf(ev) ==
    IF RGt(ev, I(AddThreshold)) THEN "Add"
    ELSE IF RGt(ev, Zero) THEN "Hold"
    ELSE IF RGt(ev, I(SellThreshold)) THEN "Trim"
    ELSE "Sell"

\* upside potential: recomputed only when the price is positive
UpsideStep(stock) ==
    IF RGt(stock.CurrentPrice, Zero)
    THEN [stock EXCEPT !.UpsidePotential =
              RMul(RDiv(RSub(stock.FairValue, stock.CurrentPrice),
                        stock.CurrentPrice), I(100))]
    ELSE stock

\* expected value: p * upside + (1 - p) * downside
ExpectedValueStep(stock) ==
    [stock EXCEPT !.ExpectedValue =
         RAdd(RMul(stock.ProbabilityPositive, stock.UpsidePotential),
              RMul(RSub(I(1), stock.ProbabilityPositive),
                   stock.DownsideRisk))]

\* b ratio: recomputed only when the downside risk is not zero
BRatioStep(stock) ==
    IF stock.DownsideRisk # Zero
    THEN [stock EXCEPT !.BRatio =
              RDiv(stock.UpsidePotential, RAbs(stock.DownsideRisk))]
    ELSE stock

\* Kelly fraction in percent: recomputed only when the b ratio is positive
KellyStep(stock) ==
    IF RGt(stock.BRatio, Zero)
    THEN [stock EXCEPT !.KellyFraction =
              RMul(RDiv(RSub(RMul(stock.BRatio, stock.ProbabilityPositive),
                             RSub(I(1), stock.ProbabilityPositive)),
                        stock.BRatio), I(100))]
    ELSE stock

\* half of the Kelly fraction, capped
CapHalfKelly(hk) == IF RGt(hk, I(HalfKellyCap)) THEN I(HalfKellyCap) ELSE hk

HalfKellyStep(stock) ==
    [stock EXCEPT !.HalfKellySuggested =
         CapHalfKelly(RDiv(stock.KellyFraction, I(2)))]

AssessmentStep(stock) ==
    [stock EXCEPT !.Assessment = AssessmentOf(stock.ExpectedValue)]

\* the buy zone as it would be if its lower end were taken 10% above the
\* upper end
BuyZoneForAboveMax(stock, requiredUpside) ==
    IF RGt(requiredUpside, Zero)
    THEN [stock EXCEPT
            !.BuyZoneMax = RDiv(stock.FairValue,
                                RAdd(I(1), RDiv(requiredUpside, I(100)))),
            !.BuyZoneMin = RMul(RDiv(stock.FairValue,
                                     RAdd(I(1), RDiv(requiredUpside, I(100)))),
                                <<11, 10>>)]
    ELSE [stock EXCEPT !.BuyZoneMin = RMul(stock.CurrentPrice, <<17, 20>>),
                       !.BuyZoneMax = RMul(stock.CurrentPrice, <<19, 20>>)]

\* the buy zone for a given required upside
BuyZoneFor(stock, requiredUpside) ==
    IF RGt(requiredUpside, Zero)
    THEN [stock EXCEPT
            !.BuyZoneMax = RDiv(stock.FairValue,
                                RAdd(I(1), RDiv(requiredUpside, I(100)))),
            !.BuyZoneMin = RMul(RDiv(stock.FairValue,
                                     RAdd(I(1), RDiv(requiredUpside, I(100)))),
                                <<9, 10>>)]
    ELSE [stock EXCEPT !.BuyZoneMin = RMul(stock.CurrentPrice, <<17, 20>>),
                       !.BuyZoneMax = RMul(stock.CurrentPrice, <<19, 20>>)]

\* buy zone: recomputed only when fair value and probability are positive
BuyZoneStep(stock) ==
    IF RGt(stock.FairValue, Zero) /\ RGt(stock.ProbabilityPositive, Zero)
    THEN BuyZoneFor(stock,
             RDiv(RSub(I(TargetEV),
                       RMul(RSub(I(1), stock.ProbabilityPositive),
                            stock.DownsideRisk)),
                  stock.ProbabilityPositive))
    ELSE stock

\* the computation as it would be if the half-Kelly weight were taken
\* before the Kelly fraction is recomputed
CalculateMetricsSizingFirst(stock) ==
    BuyZoneStep(AssessmentStep(KellyStep(BRatioStep(
        ExpectedValueStep(UpsideStep(HalfKellyStep(stock)))))))

CalculateMetrics(stock) ==
    BuyZoneStep(AssessmentStep(HalfKellyStep(KellyStep(BRatioStep(
        ExpectedValueStep(UpsideStep(stock)))))))

(***************************************************************************)
(* Provider responses: what the external services answer when called.      *)
(***************************************************************************)
\* parseFloat: "", "None" and "-" give 0; a numeral gives its value; any
\* other text leaves the Sscanf target at 0.
parseFloat(s) ==
    IF s = "" \/ s = "None" \/ s = "-" THEN Zero
    ELSE CASE s = "100.0000" -> I(100)
           [] s = "50.0000"  -> I(50)
           [] s = "120"      -> I(120)
           [] s = "1.2"      -> <<6, 5>>
           [] s = "18.5"     -> <<37, 2>>
           [] s = "0.02"     -> <<1, 50>>
           [] s = "0.1"      -> <<1, 10>>
           [] OTHER          -> Zero

\* GLOBAL_QUOTE answers: transport/decoding failure, a quote without a
\* price, and a quote with a price.
QuoteResponses ==
    { [fail |-> TRUE,  Symbol |-> "",  Price |-> ""],
      [fail |-> FALSE, Symbol |-> "T", Price |-> ""],
      [fail |-> FALSE, Symbol |-> "T", Price |-> "100.0000"] }

\* OVERVIEW answers: failure, or fundamentals with a consensus target.
OverviewResponses ==
    { [fail |-> TRUE, Symbol |-> "", Beta |-> "", AnalystTargetPrice |-> "",
       PERatio |-> "", DividendYield |-> "",
       QuarterlyEarningsGrowthYOY |-> "", Sector |-> ""],
      [fail |-> FALSE, Symbol |-> "T", Beta |-> "1.2",
       AnalystTargetPrice |-> "120", PERatio |-> "None",
       DividendYield |-> "0.02", QuarterlyEarningsGrowthYOY |-> "0.1",
       Sector |-> "Healthcare"] }

\* StockAnalysis payloads the generative provider may return.
Analysis(price, fair, beta, p, down, rate) ==
    [CurrentPrice |-> price, FairValue |-> fair, Beta |-> beta,
     Volatility |-> I(20), PERatio |-> I(15), EPSGrowthRate |-> I(8),
     DebtToEBITDA |-> I(2), DividendYield |-> I(1),
     ProbabilityPositive |-> p, DownsideRisk |-> down,
     ExchangeRateToUSD |-> rate]

\* the zero value of StockAnalysis (used where no payload was decoded)
NoAnalysis == Analysis(Zero, Zero, Zero, Zero, Zero, Zero)

\* payloads decoded from the content of a 200 response: an analysis with the
\* price above the buy zone, one with the price inside it (and no rate), and a
\* JSON object that names none of the fields (json.Unmarshal leaves zeros)
GrokAnalyses ==
    { Analysis(I(100), I(120), I(1), <<13, 20>>, I(-20), <<27, 25>>),
      Analysis(I(50), I(72), <<9, 5>>, <<13, 20>>, I(-20), Zero),
      NoAnalysis }

\* scripts of the attempts the provider is sent: the outcome of attempt i is
\* a transport error, a response with a non-200 status, or a 200 response
GrokScripts ==
    { <<"ok", "ok", "ok">>, <<"err", "status", "ok">>,
      <<"err", "err", "err">>, <<"status", "status", "status">> }

\* what the body of a 200 response holds
GrokBodyKinds == {"readerr", "badjson", "nochoices", "badcontent", "analysis"}

\* a response is a script and, when an attempt of it ends with status 200,
\* a body
GrokResponses ==
    { [script |-> s, body |-> "none", analysis |-> NoAnalysis] :
          s \in {x \in GrokScripts : \A i \in 1..GrokAttempts : x[i] # "ok"} }
    \cup
    { [script |-> s, body |-> b, analysis |-> NoAnalysis] :
          s \in {x \in GrokScripts : \E i \in 1..GrokAttempts : x[i] = "ok"},
          b \in GrokBodyKinds \ {"analysis"} }
    \cup
    { [script |-> s, body |-> "analysis", analysis |-> a] :
          s \in {x \in GrokScripts : \E i \in 1..GrokAttempts : x[i] = "ok"},
          a \in GrokAnalyses }

(***************************************************************************)
(* Currency-rate cache of one ExternalAPIService.                           *)
(***************************************************************************)
\* the cache as it would be if a cached rate were kept when a new one is
\* emitted
cacheExchangeRateKeepingFirst(cache, currency, rate) ==
    IF RGt(rate, Zero) /\ currency \notin DOMAIN cache
    THEN [c \in (DOMAIN cache) \cup {currency} |->
             IF c = currency THEN rate ELSE cache[c]]
    ELSE cache

\* cacheExchangeRate: a rate is stored only if it is positive
cacheExchangeRate(cache, currency, rate) ==
    IF RGt(rate, Zero)
    THEN [c \in (DOMAIN cache) \cup {currency} |->
             IF c = currency THEN rate ELSE cache[c]]
    ELSE cache

getMockExchangeRate(currency) ==
    CASE currency = "USD" -> I(1)
      [] currency = "EUR" -> <<11, 10>>
      [] currency = "GBP" -> <<127, 100>>
      [] currency = "DKK" -> <<769, 5000>>
      [] currency = "SEK" -> <<12, 125>>
      [] currency = "NOK" -> <<47, 500>>
      [] OTHER            -> <<3, 20>>

(***************************************************************************)
(* Data-sourcing pipeline.                                                 *)
(***************************************************************************)
\* mockStockData as it would be if it zeroed the market data but kept the
\* risk parameters of the position
mockStockDataKeepingRisk(stock, cache, now) ==
    [stock |-> [stock EXCEPT !.CurrentPrice = Zero, !.FairValue = Zero,
                             !.Beta = Zero, !.Volatility = Zero,
                             !.PERatio = Zero, !.EPSGrowthRate = Zero,
                             !.DebtToEBITDA = Zero, !.DividendYield = Zero,
                             !.UpsidePotential = Zero, !.BRatio = Zero,
                             !.ExpectedValue = Zero, !.KellyFraction = Zero,
                             !.HalfKellySuggested = Zero,
                             !.BuyZoneMin = Zero, !.BuyZoneMax = Zero,
                             !.Assessment = Unavailable,
                             !.DataSource = "None",
                             !.FairValueSource = "Not available",
                             !.LastUpdated = now],
     cache |-> cacheExchangeRate(cache, stock.Currency,
                                 getMockExchangeRate(stock.Currency)),
     err   |-> TRUE]

\* mockStockData: zero the position, mark it unavailable, cache the mock rate
mockStockData(stock, cache, now) ==
    [stock |-> [stock EXCEPT !.CurrentPrice = Zero, !.FairValue = Zero,
                             !.Beta = Zero, !.Volatility = Zero,
                             !.PERatio = Zero, !.EPSGrowthRate = Zero,
                             !.DebtToEBITDA = Zero, !.DividendYield = Zero,
                             !.ProbabilityPositive = Zero,
                             !.DownsideRisk = Zero,
                             !.UpsidePotential = Zero, !.BRatio = Zero,
                             !.ExpectedValue = Zero, !.KellyFraction = Zero,
                             !.HalfKellySuggested = Zero,
                             !.BuyZoneMin = Zero, !.BuyZoneMax = Zero,
                             !.Assessment = Unavailable,
                             !.DataSource = "None",
                             !.FairValueSource = "Not available",
                             !.LastUpdated = now],
     cache |-> cacheExchangeRate(cache, stock.Currency,
                                 getMockExchangeRate(stock.Currency)),
     err   |-> TRUE]

\* the retry loop around client.Do: attempts made, waits slept, and the
\* outcome of the last attempt
RECURSIVE GrokRetry(_, _, _)
GrokRetry(script, i, sleeps) ==
    IF script[i + 1] = "ok" THEN [attempts |-> i + 1, sleeps |-> sleeps,
                                  final |-> "ok"]
    ELSE IF i < GrokAttempts - 1
         THEN GrokRetry(script, i + 1, Append(sleeps, 2 ^ i))
         ELSE [attempts |-> i + 1, sleeps |-> sleeps, final |-> script[i + 1]]

\* step 1 of FetchAllStockData: quote and fundamentals of the quantitative
\* provider merged into the position
QuoteOk(quote) == ~quote.fail /\ quote.Symbol # "" /\ quote.Price # ""

OverviewOk(overview) == ~overview.fail /\ overview.Symbol # ""

HasTarget(overview) ==
    /\ OverviewOk(overview)
    /\ overview.AnalystTargetPrice # ""
    /\ overview.AnalystTargetPrice # "None"

MergeQuote(stock, quote) ==
    IF QuoteOk(quote)
    THEN [stock EXCEPT !.CurrentPrice = parseFloat(quote.Price)]
    ELSE stock

MergeBeta(stock, overview) ==
    IF OverviewOk(overview) /\ overview.Beta # "" /\ overview.Beta # "None"
    THEN [stock EXCEPT !.Beta = parseFloat(overview.Beta)]
    ELSE stock

MergeTarget(stock, overview) ==
    IF HasTarget(overview)
    THEN [stock EXCEPT !.FairValue = parseFloat(overview.AnalystTargetPrice)]
    ELSE stock

MergeFundamentals(stock, overview) ==
    IF OverviewOk(overview)
    THEN [stock EXCEPT
            !.PERatio = parseFloat(overview.PERatio),
            !.DividendYield = parseFloat(overview.DividendYield),
            !.EPSGrowthRate =
                IF overview.QuarterlyEarningsGrowthYOY # ""
                THEN RMul(parseFloat(overview.QuarterlyEarningsGrowthYOY),
                          I(100))
                ELSE stock.EPSGrowthRate,
            !.Sector = IF overview.Sector # ""
                       THEN overview.Sector ELSE stock.Sector]
    ELSE stock

AlphaVantageMerge(stock, quote, overview) ==
    [stock |-> MergeFundamentals(
                   MergeTarget(MergeBeta(MergeQuote(stock, quote), overview),
                               overview), overview),
     dataSource |-> IF QuoteOk(quote) THEN "Alpha Vantage" ELSE "",
     fairValueSource |-> IF HasTarget(overview)
                         THEN "Alpha Vantage Consensus" ELSE "",
     quotePrice |-> IF QuoteOk(quote) THEN {parseFloat(quote.Price)} ELSE {}]

\* whether step 1 ends the refresh
AlphaVantageUsable(merged) == RGt(merged.stock.CurrentPrice, Zero)

\* step 2 as it would be if the body of a 200 response were used without
\* checking that it decoded
GrokFetchTrustingBody(stock, cache, grok, now) ==
    LET r == GrokRetry(grok.script, 0, <<>>)
        a == grok.analysis
        s == [stock EXCEPT !.CurrentPrice = a.CurrentPrice,
                           !.FairValue = a.FairValue,
                           !.Beta = a.Beta,
                           !.Volatility = a.Volatility,
                           !.PERatio = a.PERatio,
                           !.EPSGrowthRate = a.EPSGrowthRate,
                           !.DebtToEBITDA = a.DebtToEBITDA,
                           !.DividendYield = a.DividendYield,
                           !.ProbabilityPositive = a.ProbabilityPositive,
                           !.DownsideRisk = a.DownsideRisk,
                           !.DataSource = "Grok AI",
                           !.FairValueSource = "Grok AI Analysis",
                           !.LastUpdated = now]
    IN  IF r.final # "ok"
        THEN mockStockData(stock, cache, now)
        ELSE [stock |-> CalculateMetrics(s),
              cache |-> cacheExchangeRate(cache, stock.Currency,
                                          a.ExchangeRateToUSD),
              err   |-> FALSE]

\* step 2 of FetchAllStockData: the generative provider
GrokFetch(stock, cache, grok, now) ==
    LET r == GrokRetry(grok.script, 0, <<>>)
        a == grok.analysis
        s == [stock EXCEPT !.CurrentPrice = a.CurrentPrice,
                           !.FairValue = a.FairValue,
                           !.Beta = a.Beta,
                           !.Volatility = a.Volatility,
                           !.PERatio = a.PERatio,
                           !.EPSGrowthRate = a.EPSGrowthRate,
                           !.DebtToEBITDA = a.DebtToEBITDA,
                           !.DividendYield = a.DividendYield,
                           !.ProbabilityPositive = a.ProbabilityPositive,
                           !.DownsideRisk = a.DownsideRisk,
                           !.DataSource = "Grok AI",
                           !.FairValueSource = "Grok AI Analysis",
                           !.LastUpdated = now]
    IN  IF r.final # "ok" \/ grok.body # "analysis"
        THEN mockStockData(stock, cache, now)
        ELSE [stock |-> CalculateMetrics(s),
              cache |-> cacheExchangeRate(cache, stock.Currency,
                                          a.ExchangeRateToUSD),
              err   |-> FALSE]

\* FetchAllStockData(stock) on a service configured by cfg and holding cache;
\* resp holds the answers the providers give if they are asked.
FetchAllStockData(cfg, stock, cache, resp, now) ==
    LET av == cfg.AlphaVantageAPIKey
        \* return of step 1 with the merged position m.stock
        Step1(m) ==
            [stock |-> [CalculateMetrics(
                            [m.stock EXCEPT
                               !.DataSource = m.dataSource,
                               !.FairValueSource =
                                   IF m.fairValueSource # ""
                                   THEN m.fairValueSource
                                   ELSE m.stock.FairValueSource])
                         EXCEPT !.LastUpdated = now],
             cache |-> cache, err |-> FALSE,
             avCalled |-> TRUE, grokCalled |-> FALSE,
             quotePrice |-> m.quotePrice, grokPrice |-> {},
             grokRate |-> {}]
        \* return without a generative provider
        NoGrok(m, mock) ==
            mock @@ [avCalled |-> av, grokCalled |-> FALSE,
                     quotePrice |-> IF av THEN m.quotePrice ELSE {},
                     grokPrice |-> {}, grokRate |-> {}]
        \* return of step 2 with its result g
        Step2(m, g) ==
            g @@ [avCalled |-> av, grokCalled |-> TRUE,
                  quotePrice |-> IF av THEN m.quotePrice ELSE {},
                  grokPrice |-> IF g.err THEN {}
                                ELSE {resp.grok.analysis.CurrentPrice},
                  grokRate |-> IF g.err THEN {}
                               ELSE {resp.grok.analysis.ExchangeRateToUSD}]
        Steps(m) ==
            IF av /\ AlphaVantageUsable(m) THEN Step1(m)
            ELSE IF ~cfg.XAIAPIKey
            THEN NoGrok(m, mockStockData(IF av THEN m.stock ELSE stock,
                                         cache, now))
            ELSE Step2(m, GrokFetch(IF av THEN m.stock ELSE stock, cache,
                                    resp.grok, now))
        \* the currency the call caches a rate for and the rate the cache
        \* held for it when the call began
        Return(r) ==
            r @@ [currency |-> stock.Currency,
                  cachedBefore |-> IF stock.Currency \in DOMAIN cache
                                   THEN {cache[stock.Currency]} ELSE {}]
    IN  Return(Steps(AlphaVantageMerge(stock, resp.quote, resp.overview)))

\* FetchExchangeRate on a service holding cache; fx is the answer of the
\* FX-rate provider if it is asked ("fail" or a rate)
FetchExchangeRate(cfg, cache, fromCurrency, fx) ==
    IF fromCurrency = "USD" THEN [rate |-> I(1), err |-> FALSE, asked |-> FALSE]
    ELSE IF fromCurrency \in DOMAIN cache
    THEN [rate |-> cache[fromCurrency], err |-> FALSE, asked |-> FALSE]
    ELSE IF ~cfg.ExchangeRatesAPIKey /\ ~cfg.XAIAPIKey
    THEN [rate |-> getMockExchangeRate(fromCurrency), err |-> FALSE,
          asked |-> FALSE]
    ELSE IF fx.fail
    THEN [rate |-> I(1), err |-> TRUE, asked |-> TRUE]
    ELSE [rate |-> fx.rate, err |-> FALSE, asked |-> TRUE]

\* answers of the FX-rate provider: no usable answer, or a USD rate (the
\* provider gives a rate only to a request that carries an access key)
FxFail == [fail |-> TRUE, rate |-> Zero]
FxResponses(cfg) ==
    IF cfg.ExchangeRatesAPIKey
    THEN {FxFail, [fail |-> FALSE, rate |-> <<27, 25>>]}
    ELSE {FxFail}

\* FetchStockPrice: the pipeline run on a temporary USD position
TempStock(zero) == [zero EXCEPT !.Sector = "Unknown", !.Currency = "USD"]

FetchStockPrice(cfg, zero, cache, resp, now) ==
    LET Return(r) ==
            r @@ [price |-> IF r.err THEN Zero ELSE r.stock.CurrentPrice]
    IN  Return(FetchAllStockData(cfg, TempStock(zero), cache, resp, now))

(***************************************************************************)
(* State.                                                                  *)
(***************************************************************************)
VARIABLES
    cfg,                \* config.Config: which API keys are set
    stocks,             \* table stocks: id -> row
    history,            \* table stock_histories, in insertion order
    alerts,             \* table alerts, in insertion order
    settings,           \* the PortfolioSettings row
    exchangeRateCache,  \* exchangeRateCache of each ExternalAPIService
    bulk,               \* the UpdateAllStocks request in flight
    job,                \* the scheduler job of each cadence tier
    now,                \* time.Now(): a logical clock, one tick per refresh
    last,               \* record of the latest pipeline call and its caller
    sweep,              \* the checkAndSendAlerts run in flight
    deletedStocks,      \* table deleted_stocks, in insertion order
    summary,            \* record of the latest GetPortfolioSummary
    retry,              \* the retry loop of one generative-provider request
    access,             \* the cache-map accesses of the executions under way
    calc,               \* a position under CalculateMetrics
    overlap             \* a delivery sweep started while one is under way

vars == <<cfg, stocks, history, alerts, settings, exchangeRateCache, bulk,
          job, now, last, sweep, deletedStocks, summary, retry, access,
          calc, overlap>>

\* the state of the step-level views of the cache map and of the metrics
aside == <<access, calc, overlap>>

\* the state outside the refresh paths
others == <<sweep, deletedStocks, summary, retry, aside>>

StockIDs == 1..NumStocks
Tiers == {"daily", "weekly", "monthly"}
Services == {"stock_handler", "scheduler", "portfolio_handler"}
AlertThresholds == {5, 10}

\* the zero value of models.Stock
ZeroStock ==
    [ID |-> 0, Ticker |-> "", Sector |-> "", Currency |-> "",
     UpdateFrequency |-> "",
     SharesOwned |-> 0, AvgPriceLocal |-> Zero,
     CurrentPrice |-> Zero, FairValue |-> Zero, Beta |-> Zero,
     Volatility |-> Zero, PERatio |-> Zero, EPSGrowthRate |-> Zero,
     DebtToEBITDA |-> Zero, DividendYield |-> Zero,
     ProbabilityPositive |-> Zero, DownsideRisk |-> Zero,
     UpsidePotential |-> Zero, BRatio |-> Zero, ExpectedValue |-> Zero,
     KellyFraction |-> Zero, HalfKellySuggested |-> Zero,
     BuyZoneMin |-> Zero, BuyZoneMax |-> Zero, Assessment |-> "",
     DataSource |-> "", FairValueSource |-> "",
     CurrentValueUSD |-> Zero, UnrealizedPnL |-> Zero, Weight |-> Zero,
     LastUpdated |-> 0, AlphaVantageFetchedAt |-> 0, GrokFetchedAt |-> 0]

\* tickers of the rows the database starts with
TickerOf(id) == CASE id = 1 -> "NOVO" [] id = 2 -> "SAP" [] OTHER -> "ABB"

\* a row as BulkUpdateStocks creates it from a request that carries the
\* sizing and the risk parameters but no market data yet
NewStock(id) ==
    [ZeroStock EXCEPT !.ID = id, !.Ticker = TickerOf(id),
                      !.Sector = "Healthcare",
                      !.Currency = IF id = 1 THEN "USD" ELSE "EUR",
                      !.UpdateFrequency = IF id <= 2 THEN "daily"
                                          ELSE "weekly",
                      !.SharesOwned = 10, !.AvgPriceLocal = I(80),
                      !.ProbabilityPositive = <<13, 20>>,
                      !.DownsideRisk = I(-20)]

\* a batch with no request in flight (pc = "idle"); after a run it keeps the
\* rows it worked on, its step log and the response it wrote
IdleBatch ==
    [pc |-> "idle", stocks |-> <<>>, i |-> 0, oldEV |-> Zero,
     updatedCount |-> 0, errorCount |-> 0, log |-> <<>>,
     reply |-> [status |-> 0, updated |-> 0, errors |-> 0, total |-> 0]]

NoCall ==
    [caller |-> "none", id |-> 0, at |-> 0, prePrice |-> Zero,
     post |-> ZeroStock, err |-> FALSE, avCalled |-> FALSE,
     grokCalled |-> FALSE, grokFailed |-> FALSE,
     quotePrice |-> {}, grokPrice |-> {}, saved |-> FALSE,
     grokRate |-> {}, currency |-> "", cachedBefore |-> {}]

\* no delivery sweep in flight
IdleSweep == [pc |-> "idle", alerts |-> <<>>, i |-> 0, log |-> <<>>]

\* no portfolio summary computed yet
NoSummary ==
    [served |-> FALSE, fxRates |-> <<>>, TotalValue |-> Zero,
     caches |-> <<>>, metrics |-> <<>>, stocks |-> <<>>]

\* no generative-provider request under way
NoRetry == [pc |-> "idle", script |-> <<>>, i |-> 0, attempts |-> 0,
            sleeps |-> <<>>, final |-> ""]

\* the services that refresh positions
RefreshServices == {"stock_handler", "scheduler"}

\* the executions that may be under way at one time: two requests served by
\* the stock handler and two jobs of the scheduler
Executions == {"request1", "request2", "daily", "weekly"}

ServiceOf(e) ==
    IF e \in {"request1", "request2"} THEN "stock_handler" ELSE "scheduler"

\* an execution that is at no access of the cache map
Outside == [pc |-> "out", currency |-> "", rate |-> Zero, raced |-> FALSE]

\* no execution at the cache map, the process running
NoAccess == [of |-> [e \in Executions |-> Outside], fatal |-> FALSE]

\* no position handed to CalculateMetrics
NoCalc == [pc |-> "idle", input |-> ZeroStock, twin |-> ZeroStock,
           output |-> ZeroStock, twinOutput |-> ZeroStock,
           again |-> ZeroStock]

Init ==
    /\ cfg \in [AlphaVantageAPIKey : BOOLEAN, XAIAPIKey : BOOLEAN,
                ExchangeRatesAPIKey : {FALSE}, SendGridAPIKey : {FALSE}]
    /\ stocks = [id \in StockIDs |-> NewStock(id)]
    /\ history = <<>>
    /\ alerts = <<>>
    /\ settings = [AlertsEnabled |-> TRUE,
                   AlertThresholdEV |-> I(DefaultAlertThreshold)]
    /\ exchangeRateCache = [s \in Services |-> <<>>]
    /\ bulk = IdleBatch
    /\ job = [t \in Tiers |-> IdleBatch]
    /\ now = 0
    /\ last = NoCall
    /\ sweep = IdleSweep
    /\ overlap = IdleSweep
    /\ deletedStocks = <<>>
    /\ summary = NoSummary
    /\ retry = NoRetry
    /\ access = NoAccess
    /\ calc = NoCalc

(***************************************************************************)
(* Steps of one position refresh.                                          *)
(***************************************************************************)
\* float64(SharesOwned) * CurrentPrice * fxRate and the unrealized P&L
WithUSDValues(stock, fxRate) ==
    LET value == RMul(RMul(I(stock.SharesOwned), stock.CurrentPrice), fxRate)
        cost  == RMul(RMul(I(stock.SharesOwned), stock.AvgPriceLocal), fxRate)
    IN  [stock EXCEPT !.CurrentValueUSD = value,
                      !.UnrealizedPnL = RSub(value, cost)]

\* record of a pipeline call for the properties below
CallRecord(caller, id, pre, r, grok, t) ==
    [caller |-> caller, id |-> id, at |-> t, prePrice |-> pre.CurrentPrice,
     post |-> r.stock, err |-> r.err, avCalled |-> r.avCalled,
     grokCalled |-> r.grokCalled,
     grokFailed |-> GrokRetry(grok.script, 0, <<>>).final # "ok"
                    \/ grok.body # "analysis",
     quotePrice |-> r.quotePrice, grokPrice |-> r.grokPrice,
     saved |-> FALSE, grokRate |-> r.grokRate, currency |-> r.currency,
     cachedBefore |-> r.cachedBefore]

\* updateStockDataWithSource up to the save (auto mode): pipeline call,
\* fetched-at stamps, FX rate, USD values
HandlerFetch(c, stock, cache, resp, t) ==
    LET \* what follows the pipeline call that returned r
        After(r) ==
            LET s1 == [r.stock EXCEPT !.AlphaVantageFetchedAt = t,
                                      !.GrokFetchedAt = t]
                fx == FetchExchangeRate(c, r.cache, stock.Currency, resp.fx)
                s2 == [WithUSDValues(s1, IF fx.err THEN I(1) ELSE fx.rate)
                          EXCEPT !.LastUpdated = t]
            IN  [stock |-> IF r.err THEN r.stock ELSE s2, cache |-> r.cache,
                 err |-> r.err, call |-> r, fxAsked |-> ~r.err /\ fx.asked]
    IN  After(FetchAllStockData(c, stock, cache, resp, t))

\* CreateStock from the pipeline call up to the insert: FX rate, USD values
CreateFetch(c, stock, cache, resp, t) ==
    LET \* what follows the pipeline call that returned r
        After(r) ==
            LET fx == FetchExchangeRate(c, r.cache, stock.Currency, resp.fx)
                s2 == [WithUSDValues(r.stock,
                                     IF fx.err THEN I(1) ELSE fx.rate)
                          EXCEPT !.LastUpdated = t]
            IN  [stock |-> IF r.err THEN r.stock ELSE s2, cache |-> r.cache,
                 err |-> r.err, call |-> r, fxAsked |-> ~r.err /\ fx.asked]
    IN  After(FetchAllStockData(c, stock, cache, resp, t))

\* updateStock of the scheduler up to the save
SchedulerFetch(c, stock, cache, resp, t) ==
    LET \* what follows the FetchStockPrice call that returned r
        After(r) ==
            LET s1 == CalculateMetrics([stock EXCEPT !.CurrentPrice = r.price])
                fx == FetchExchangeRate(c, r.cache, stock.Currency, resp.fx)
                s2 == [WithUSDValues(s1, IF fx.err THEN I(1) ELSE fx.rate)
                          EXCEPT !.LastUpdated = t]
            IN  [stock |-> IF r.err THEN stock ELSE s2, cache |-> r.cache,
                 err |-> r.err, call |-> r, fxAsked |-> ~r.err /\ fx.asked]
    IN  After(FetchStockPrice(c, ZeroStock, cache, resp, t))

(***************************************************************************)
(* Answers the environment may give to one refresh of a position, paired   *)
(* with what the refresh makes of them.  A provider that is not asked in a *)
(* refresh has its answer pinned to a default, since it cannot influence   *)
(* the refresh.                                                            *)
(***************************************************************************)
DefaultQuote == [fail |-> TRUE, Symbol |-> "", Price |-> ""]
DefaultOverview ==
    [fail |-> TRUE, Symbol |-> "", Beta |-> "", AnalystTargetPrice |-> "",
     PERatio |-> "", DividendYield |-> "",
     QuarterlyEarningsGrowthYOY |-> "", Sector |-> ""]
DefaultGrok ==
    [script |-> <<"err", "err", "err">>, body |-> "none",
     analysis |-> NoAnalysis]

\* the refresh of the path that makes it
Fetch(path, c, stock, cache, resp, t) ==
    IF path = "scheduler" THEN SchedulerFetch(c, stock, cache, resp, t)
    ELSE IF path = "create" THEN CreateFetch(c, stock, cache, resp, t)
    ELSE HandlerFetch(c, stock, cache, resp, t)

Refreshes(path, c, stock, cache, t) ==
    LET QO == IF c.AlphaVantageAPIKey
              THEN QuoteResponses \X OverviewResponses
              ELSE {<<DefaultQuote, DefaultOverview>>}
        Answer(qo, g, fx) == [quote |-> qo[1], overview |-> qo[2],
                              grok |-> g, fx |-> fx]
        Pair(resp) ==
            [resp |-> resp, f |-> Fetch(path, c, stock, cache, resp, t)]
        \* p1 is the refresh without an FX answer: the other FX answers
        \* count if it asks for a rate
        WithFxOf(qo, g, p1) ==
            {p1} \cup
            {Pair(Answer(qo, g, fx)) :
                 fx \in IF p1.f.fxAsked THEN FxResponses(c) \ {FxFail}
                        ELSE {}}
        WithFx(qo, g) == WithFxOf(qo, g, Pair(Answer(qo, g, FxFail)))
        \* p0 is the refresh without an answer of the generative provider:
        \* its answers count if the refresh calls it
        WithGrokOf(qo, p0) ==
            UNION {WithFx(qo, g) :
                       g \in IF p0.f.call.grokCalled THEN GrokResponses
                             ELSE {DefaultGrok}}
        WithGrok(qo) ==
            WithGrokOf(qo, Pair(Answer(qo, DefaultGrok, FxFail)))
    IN  UNION {WithGrok(qo) : qo \in QO}

\* the StockHistory row as it would be if it were filled before the metrics
\* of the refresh are computed
HistoryEntryBeforeMetrics(stock, t) ==
    [StockID |-> stock.ID, CurrentPrice |-> stock.CurrentPrice,
     FairValue |-> stock.FairValue,
     UpsidePotential |-> Zero,
     DownsideRisk |-> stock.DownsideRisk,
     ProbabilityPositive |-> stock.ProbabilityPositive,
     ExpectedValue |-> Zero,
     KellyFraction |-> Zero, Weight |-> stock.Weight,
     Assessment |-> "", RecordedAt |-> t]

\* the StockHistory row written after a save
HistoryEntry(stock, t) ==
    [StockID |-> stock.ID, CurrentPrice |-> stock.CurrentPrice,
     FairValue |-> stock.FairValue,
     UpsidePotential |-> stock.UpsidePotential,
     DownsideRisk |-> stock.DownsideRisk,
     ProbabilityPositive |-> stock.ProbabilityPositive,
     ExpectedValue |-> stock.ExpectedValue,
     KellyFraction |-> stock.KellyFraction, Weight |-> stock.Weight,
     Assessment |-> stock.Assessment, RecordedAt |-> t]

\* db.Create(&history) as it would be if a position kept its latest
\* snapshot only
CreateHistoryReplacing(rows, entry) ==
    Append(SelectSeq(rows, LAMBDA e : e.StockID # entry.StockID), entry)

\* db.Create(&history): one more row in stock_histories
CreateHistory(rows, entry) == Append(rows, entry)

NewAlert(stock, type, t) ==
    [StockID |-> stock.ID, AlertType |-> type, EmailSent |-> FALSE,
     CreatedAt |-> t]

\* alert check of updateStockDataWithSource
HandlerAlerts(stock, oldEV, t) ==
    LET evChange == RSub(stock.ExpectedValue, oldEV)
    IN  IF RGt(evChange, I(HandlerAlertThreshold))
           \/ RLt(evChange, I(-HandlerAlertThreshold))
        THEN <<NewAlert(stock, "ev_change", t)>>
        ELSE <<>>

\* alert check of updateStock
SchedulerAlerts(stock, oldEV, set, t) ==
    LET evChange == RSub(stock.ExpectedValue, oldEV)
        ev == IF set.AlertsEnabled
                 /\ (RGt(evChange, set.AlertThresholdEV)
                     \/ RLt(evChange, RNeg(set.AlertThresholdEV)))
              THEN <<NewAlert(stock, "ev_change", t)>>
              ELSE <<>>
        bz == IF RGe(stock.CurrentPrice, stock.BuyZoneMin)
                 /\ RLe(stock.CurrentPrice, stock.BuyZoneMax)
              THEN <<NewAlert(stock, "buy_zone", t)>>
              ELSE <<>>
    IN  ev \o bz

(***************************************************************************)
(* Control flow of a batch: the steps of one position and the loop.        *)
(***************************************************************************)
\* the step order as it would be if a failed save were only logged
StepAfterIgnoringSaveError(step, ok) ==
    CASE step = "fetch"   -> IF ok THEN "save" ELSE "next"
      [] step = "save"    -> "history"
      [] step = "history" -> "alert"
      [] step = "alert"   -> "next"

\* the steps as they would follow each other if a failed fetch went on to
\* the save of the row the fallback has filled
StepAfterSavingUnavailable(step, ok) ==
    CASE step = "fetch"   -> "save"
      [] step = "save"    -> IF ok THEN "history" ELSE "next"
      [] step = "history" -> "alert"
      [] step = "alert"   -> "next"

\* the step that follows a step of updateStockDataWithSource / updateStock;
\* "next" leaves the position (return to the loop)
StepAfter(step, ok) ==
    CASE step = "fetch"   -> IF ok THEN "save" ELSE "next"
      [] step = "save"    -> IF ok THEN "history" ELSE "next"
      [] step = "history" -> "alert"
      [] step = "alert"   -> "next"

\* rows returned by db.Find, in primary-key order
RECURSIVE SelectRows(_, _)
SelectRows(rows, ids) ==
    IF ids = {} THEN <<>>
    ELSE LET id == CHOOSE x \in ids : \A y \in ids : x <= y
         IN  <<rows[id]>> \o SelectRows(rows, ids \ {id})

\* the loop as it would be if the first failing position ended the batch
BulkLoopAbortingOnError(b, err) ==
    LET u == IF err THEN b.updatedCount ELSE b.updatedCount + 1
        e == IF err THEN b.errorCount + 1 ELSE b.errorCount
        c == [b EXCEPT !.updatedCount = u, !.errorCount = e]
    IN  IF b.i < Len(b.stocks) /\ ~err
        THEN [c EXCEPT !.i = b.i + 1, !.pc = "fetch"]
        ELSE [c EXCEPT !.pc = "idle",
                       !.reply = [status |-> 200, updated |-> u,
                                  errors |-> e, total |-> Len(b.stocks)]]

\* the loop as it would be if every position left were counted as updated
BulkLoopCountingAttempts(b, err) ==
    LET u == b.updatedCount + 1
        e == IF err THEN b.errorCount + 1 ELSE b.errorCount
        c == [b EXCEPT !.updatedCount = u, !.errorCount = e]
    IN  IF b.i < Len(b.stocks)
        THEN [c EXCEPT !.i = b.i + 1, !.pc = "fetch"]
        ELSE [c EXCEPT !.pc = "idle",
                       !.reply = [status |-> 200, updated |-> u,
                                  errors |-> e, total |-> Len(b.stocks)]]

\* loop of UpdateAllStocks: count the position just left, go to the next
\* one or write the response
BulkLoop(b, err) ==
    LET u == IF err THEN b.updatedCount ELSE b.updatedCount + 1
        e == IF err THEN b.errorCount + 1 ELSE b.errorCount
        c == [b EXCEPT !.updatedCount = u, !.errorCount = e]
    IN  IF b.i < Len(b.stocks)
        THEN [c EXCEPT !.i = b.i + 1, !.pc = "fetch"]
        ELSE [c EXCEPT !.pc = "idle",
                       !.reply = [status |-> 200, updated |-> u,
                                  errors |-> e, total |-> Len(b.stocks)]]

\* loop of updateStocksWithFrequency: log, go to the next position or end
JobLoop(b, err) ==
    IF b.i < Len(b.stocks)
    THEN [b EXCEPT !.i = b.i + 1, !.pc = "fetch"]
    ELSE [b EXCEPT !.pc = "idle"]

\* refreshes a batch in flight still has to make
Pending(b) ==
    IF b.pc = "idle" THEN 0
    ELSE Len(b.stocks) - b.i + (IF b.pc = "fetch" THEN 1 ELSE 0)

\* whether n more refreshes fit into the behaviour, given the batches in
\* flight (the bound MaxCalls)
RECURSIVE SumPending(_, _)
SumPending(j, ts) ==
    IF ts = {} THEN 0
    ELSE LET t == CHOOSE x \in ts : TRUE
         IN  Pending(j[t]) + SumPending(j, ts \ {t})

Fits(n, t, b, j) == t + Pending(b) + SumPending(j, DOMAIN j) + n <= MaxCalls

\* a batch record after one step of its current position
AfterStepOf(b, step, ok, path) ==
    LET c == [b EXCEPT !.log = Append(b.log, <<b.stocks[b.i].ID, step, ok>>)]
        n == StepAfter(step, ok)
    IN  IF n # "next" THEN [c EXCEPT !.pc = n]
        ELSE IF path = "scheduler" THEN JobLoop(c, ~ok)
        ELSE BulkLoop(c, ~ok)

(***************************************************************************)
(* Stock handler.                                                          *)
(***************************************************************************)
\* POST /stocks/:id/update, auto mode
UpdateSingleStock(id) ==
    /\ Fits(1, now, bulk, job)
    /\ LET stock == stocks[id]
           cache == exchangeRateCache["stock_handler"]
           t     == now + 1
       IN  \E x \in Refreshes("stock_handler", cfg, stock, cache, t) :
           LET f == x.f
               resp == x.resp
           IN  \E db1 \in (IF f.err THEN {TRUE} ELSE BOOLEAN) :
               \E db2 \in (IF f.err \/ ~db1 THEN BOOLEAN ELSE {TRUE}) :
               /\ IF ~f.err /\ db1
                  THEN /\ stocks' = [stocks EXCEPT ![id] = f.stock]
                       /\ history' = CreateHistory(history,
                                                HistoryEntry(f.stock, t))
                       /\ alerts' = alerts \o
                              HandlerAlerts(f.stock, stock.ExpectedValue, t)
                  ELSE /\ stocks' = IF db2
                                    THEN [stocks EXCEPT ![id] =
                                              CalculateMetrics(f.stock)]
                                    ELSE stocks
                       /\ UNCHANGED <<history, alerts>>
               /\ exchangeRateCache' =
                      [exchangeRateCache EXCEPT !["stock_handler"] = f.cache]
               /\ last' = [CallRecord("single", id, stock, f.call,
                                      resp.grok, t)
                              EXCEPT !.saved = ~f.err /\ db1]
    /\ now' = now + 1
    /\ UNCHANGED <<others, cfg, settings, bulk, job>>

\* POST /stocks/update-all: db.Find and entry into the loop
BulkStart ==
    /\ bulk.pc = "idle"
    /\ \E dbOk \in BOOLEAN :
         LET rows == SelectRows(stocks, DOMAIN stocks)
         IN  /\ dbOk => Fits(Len(rows), now, bulk, job)
             /\ bulk' = IF ~dbOk
                   THEN [IdleBatch EXCEPT !.reply.status = 500]
                   ELSE IF rows = <<>>
                   THEN [IdleBatch EXCEPT !.reply.status = 200]
                   ELSE [IdleBatch EXCEPT !.pc = "fetch", !.stocks = rows,
                                          !.i = 1]
    /\ UNCHANGED <<others, cfg, stocks, history, alerts, settings, exchangeRateCache,
                   job, now, last>>

BulkFetch ==
    /\ bulk.pc = "fetch"
    /\ LET stock == bulk.stocks[bulk.i]
           cache == exchangeRateCache["stock_handler"]
           t     == now + 1
       IN  \E x \in Refreshes("stock_handler", cfg, stock, cache, t) :
           LET f == x.f
               resp == x.resp
               b == [bulk EXCEPT !.stocks[bulk.i] = f.stock,
                                 !.oldEV = stock.ExpectedValue]
           IN  /\ bulk' = AfterStepOf(b, "fetch", ~f.err, "stock_handler")
               /\ exchangeRateCache' =
                      [exchangeRateCache EXCEPT !["stock_handler"] = f.cache]
               /\ last' = CallRecord("bulk", stock.ID, stock, f.call,
                                     resp.grok, t)
    /\ now' = now + 1
    /\ UNCHANGED <<others, cfg, stocks, history, alerts, settings, job>>

BulkSave ==
    /\ bulk.pc = "save"
    /\ \E dbOk \in BOOLEAN :
         LET stock == bulk.stocks[bulk.i]
         IN  /\ stocks' = IF dbOk THEN [stocks EXCEPT ![stock.ID] = stock]
                          ELSE stocks
             /\ bulk' = AfterStepOf(bulk, "save", dbOk, "stock_handler")
    /\ UNCHANGED <<others, cfg, history, alerts, settings, exchangeRateCache, job,
                   now, last>>

BulkHistory ==
    /\ bulk.pc = "history"
    /\ history' = CreateHistory(history,
                              HistoryEntry(bulk.stocks[bulk.i], now))
    /\ bulk' = AfterStepOf(bulk, "history", TRUE, "stock_handler")
    /\ UNCHANGED <<others, cfg, stocks, alerts, settings, exchangeRateCache, job,
                   now, last>>

BulkAlert ==
    /\ bulk.pc = "alert"
    /\ alerts' = alerts \o HandlerAlerts(bulk.stocks[bulk.i], bulk.oldEV, now)
    /\ bulk' = AfterStepOf(bulk, "alert", TRUE, "stock_handler")
    /\ UNCHANGED <<others, cfg, stocks, history, settings, exchangeRateCache, job,
                   now, last>>

(***************************************************************************)
(* Scheduler.                                                              *)
(***************************************************************************)
\* cron trigger of a cadence tier: db.Where(update_frequency).Find
\* the selection as it would be without the WHERE clause
RowsOfAnyFrequency(rows, frequency) == DOMAIN rows

\* db.Where("update_frequency = ?", frequency).Find(&stocks)
RowsOfFrequency(rows, frequency) ==
    {id \in DOMAIN rows : rows[id].UpdateFrequency = frequency}

JobStart(tier) ==
    /\ job[tier].pc = "idle"
    /\ \E dbOk \in BOOLEAN :
         LET rows == SelectRows(stocks, RowsOfFrequency(stocks, tier))
         IN  /\ dbOk => Fits(Len(rows), now, bulk, job)
             /\ job' = [job EXCEPT ![tier] =
                            IF ~dbOk \/ rows = <<>>
                            THEN IdleBatch
                            ELSE [IdleBatch EXCEPT !.pc = "fetch",
                                                   !.stocks = rows, !.i = 1]]
    /\ UNCHANGED <<others, cfg, stocks, history, alerts, settings, exchangeRateCache,
                   bulk, now, last>>

JobFetch(tier) ==
    /\ job[tier].pc = "fetch"
    /\ LET b     == job[tier]
           stock == b.stocks[b.i]
           cache == exchangeRateCache["scheduler"]
           t     == now + 1
       IN  \E x \in Refreshes("scheduler", cfg, stock, cache, t) :
           LET f == x.f
               resp == x.resp
               c == [b EXCEPT !.stocks[b.i] = f.stock,
                              !.oldEV = stock.ExpectedValue]
           IN  /\ job' = [job EXCEPT ![tier] =
                             AfterStepOf(c, "fetch", ~f.err, "scheduler")]
               /\ exchangeRateCache' =
                      [exchangeRateCache EXCEPT !["scheduler"] = f.cache]
               /\ last' = CallRecord("job", stock.ID, TempStock(ZeroStock),
                                     f.call, resp.grok, t)
    /\ now' = now + 1
    /\ UNCHANGED <<others, cfg, stocks, history, alerts, settings, bulk>>

JobSave(tier) ==
    /\ job[tier].pc = "save"
    /\ \E dbOk \in BOOLEAN :
         LET stock == job[tier].stocks[job[tier].i]
         IN  /\ stocks' = IF dbOk THEN [stocks EXCEPT ![stock.ID] = stock]
                          ELSE stocks
             /\ job' = [job EXCEPT ![tier] =
                           AfterStepOf(job[tier], "save", dbOk, "scheduler")]
    /\ UNCHANGED <<others, cfg, history, alerts, settings, exchangeRateCache, bulk,
                   now, last>>

JobHistory(tier) ==
    /\ job[tier].pc = "history"
    /\ history' = CreateHistory(history,
                      HistoryEntry(job[tier].stocks[job[tier].i], now))
    /\ job' = [job EXCEPT ![tier] =
                  AfterStepOf(job[tier], "history", TRUE, "scheduler")]
    /\ UNCHANGED <<others, cfg, stocks, alerts, settings, exchangeRateCache, bulk,
                   now, last>>

JobAlert(tier) ==
    /\ job[tier].pc = "alert"
    /\ alerts' = alerts \o SchedulerAlerts(job[tier].stocks[job[tier].i],
                                           job[tier].oldEV, settings, now)
    /\ job' = [job EXCEPT ![tier] =
                  AfterStepOf(job[tier], "alert", TRUE, "scheduler")]
    /\ UNCHANGED <<others, cfg, stocks, history, settings, exchangeRateCache, bulk,
                   now, last>>

(***************************************************************************)
(* Settings handler.                                                       *)
(***************************************************************************)
\* PUT /settings with a map naming the alert fields
UpdateSettings ==
    /\ \E en \in BOOLEAN, th \in AlertThresholds :
         /\ settings' = [AlertsEnabled |-> en, AlertThresholdEV |-> I(th)]
         /\ settings' # settings
    /\ UNCHANGED <<others, cfg, stocks, history, alerts, exchangeRateCache, bulk, job,
                   now, last>>

Next ==
    \/ \E id \in StockIDs : UpdateSingleStock(id)
    \/ BulkStart
    \/ BulkFetch
    \/ BulkSave
    \/ BulkHistory
    \/ BulkAlert
    \/ \E tier \in Tiers : JobStart(tier)
    \/ \E tier \in Tiers : JobFetch(tier)
    \/ \E tier \in Tiers : JobSave(tier)
    \/ \E tier \in Tiers : JobHistory(tier)
    \/ \E tier \in Tiers : JobAlert(tier)
    \/ UpdateSettings

Spec == Init /\ [][Next]_vars

(***************************************************************************)
(* Life cycle of a position: create, manual update, delete, restore.       *)
(***************************************************************************)
\* rows inserted into stocks in one behaviour, beside the one it starts with
MaxCreated == 1
\* rows inserted into deleted_stocks in one behaviour
MaxDeleted == 1

RECURSIVE MaxOf(_)
MaxOf(S) ==
    IF S = {} THEN 0
    ELSE LET x == CHOOSE y \in S : TRUE
             m == MaxOf(S \ {x})
         IN  IF x > m THEN x ELSE m

\* the primary key the next insert into stocks gets
NextStockID(rows, deleted) ==
    1 + MaxOf(DOMAIN rows
              \cup {deleted[k].StockData.ID : k \in 1..Len(deleted)})

\* bodies of POST /stocks: a ticker with the optional fields left out
CreateStockRequests ==
    { [Ticker |-> tk, Sector |-> "Industrials", Currency |-> "",
       SharesOwned |-> 5, AvgPriceLocal |-> I(80), UpdateFrequency |-> "",
       ProbabilityPositive |-> Zero] : tk \in {"NOVO", "DSV"} }

\* the row CreateStock builds from a request, defaults filled in
StockOfRequest(req) ==
    [ZeroStock EXCEPT
        !.Ticker = req.Ticker, !.Sector = req.Sector,
        !.Currency = IF req.Currency = "" THEN "USD" ELSE req.Currency,
        !.SharesOwned = req.SharesOwned,
        !.AvgPriceLocal = req.AvgPriceLocal,
        !.UpdateFrequency = IF req.UpdateFrequency = "" THEN "daily"
                            ELSE req.UpdateFrequency,
        !.ProbabilityPositive = IF req.ProbabilityPositive = Zero
                                THEN <<13, 20>>
                                ELSE req.ProbabilityPositive]

\* json.Marshal(stock) followed by json.Unmarshal: every field of the row
\* has a JSON name, so all of them come back
StockOfJSON(data) == [f \in DOMAIN data |-> data[f]]

\* POST /stocks
CreateStock ==
    \E req \in CreateStockRequests :
        IF \E id \in DOMAIN stocks : stocks[id].Ticker = req.Ticker
        THEN UNCHANGED vars
        ELSE /\ Fits(1, now, bulk, job)
             /\ NextStockID(stocks, deletedStocks) <= 1 + MaxCreated
             /\ LET stock == StockOfRequest(req)
                    cache == exchangeRateCache["stock_handler"]
                    id    == NextStockID(stocks, deletedStocks)
                    t     == now + 1
                IN  \E x \in Refreshes("create", cfg, stock, cache, t) :
                    \E dbOk \in (IF x.f.err THEN {FALSE} ELSE BOOLEAN) :
                    /\ IF dbOk
                       THEN /\ stocks' = (id :> [x.f.stock EXCEPT !.ID = id])
                                              @@ stocks
                            /\ history' = CreateHistory(history,
                                   HistoryEntry([x.f.stock EXCEPT !.ID = id],
                                                t))
                       ELSE UNCHANGED <<stocks, history>>
                    /\ exchangeRateCache' =
                           [exchangeRateCache EXCEPT
                               !["stock_handler"] = x.f.cache]
                    /\ last' = [CallRecord("create", id, stock, x.f.call,
                                           x.resp.grok, t)
                                   EXCEPT !.saved = dbOk]
             /\ now' = now + 1
             /\ UNCHANGED <<others, cfg, alerts, settings, bulk, job>>

\* PUT /stocks/:id/price with a positive price
UpdateStockPrice(id) ==
    /\ \E price \in {I(90)}, dbOk \in BOOLEAN, fx \in FxResponses(cfg) :
         LET s1 == CalculateMetrics([stocks[id] EXCEPT
                                        !.CurrentPrice = price,
                                        !.LastUpdated = now])
             r  == FetchExchangeRate(cfg, exchangeRateCache["stock_handler"],
                                     s1.Currency, fx)
         IN  stocks' = IF dbOk
                       THEN [stocks EXCEPT ![id] =
                                WithUSDValues(s1, IF r.err THEN I(1)
                                                  ELSE r.rate)]
                       ELSE stocks
    /\ UNCHANGED <<others, cfg, history, alerts, settings, exchangeRateCache,
                   bulk, job, now, last>>

\* DELETE /stocks/:id: log the row in deleted_stocks, then delete it
DeleteStock(id) ==
    /\ Len(deletedStocks) < MaxDeleted
    /\ \E dbCreate \in BOOLEAN, dbDelete \in BOOLEAN :
         /\ dbCreate
         /\ deletedStocks' = Append(deletedStocks,
                                    [StockData |-> stocks[id],
                                     DeletedAt |-> now, RestoredAt |-> 0])
         /\ stocks' = IF dbDelete
                      THEN [k \in DOMAIN stocks \ {id} |-> stocks[k]]
                      ELSE stocks
    /\ UNCHANGED <<cfg, history, alerts, settings, exchangeRateCache, bulk,
                   job, now, last, sweep, summary, retry, aside>>

\* POST /deleted-stocks/:id/restore: insert the logged row under a new
\* primary key and stamp the log entry
RestoreStock(k) ==
    /\ NextStockID(stocks, deletedStocks) <= 1 + MaxCreated
    /\ \E dbOk \in BOOLEAN :
         LET id == NextStockID(stocks, deletedStocks)
         IN  /\ dbOk
             /\ stocks' = (id :> [StockOfJSON(deletedStocks[k].StockData)
                                     EXCEPT !.ID = id]) @@ stocks
             /\ deletedStocks' = [deletedStocks EXCEPT
                                     ![k].RestoredAt = now + 1]
    /\ UNCHANGED <<cfg, history, alerts, settings, exchangeRateCache, bulk,
                   job, now, last, sweep, summary, retry, aside>>

\* the stock handler with a quote provider only and a database that holds
\* one position
LifecycleInit ==
    /\ cfg \in [AlphaVantageAPIKey : {TRUE}, XAIAPIKey : {FALSE},
                ExchangeRatesAPIKey : {FALSE}, SendGridAPIKey : {FALSE}]
    /\ stocks = [id \in {1} |-> NewStock(id)]
    /\ history = <<>>
    /\ alerts = <<>>
    /\ settings = [AlertsEnabled |-> TRUE,
                   AlertThresholdEV |-> I(DefaultAlertThreshold)]
    /\ exchangeRateCache = [s \in Services |-> <<>>]
    /\ bulk = IdleBatch
    /\ job = [t \in Tiers |-> IdleBatch]
    /\ now = 0
    /\ last = NoCall
    /\ sweep = IdleSweep
    /\ overlap = IdleSweep
    /\ deletedStocks = <<>>
    /\ summary = NoSummary
    /\ retry = NoRetry
    /\ access = NoAccess
    /\ calc = NoCalc

LifecycleNext ==
    \/ CreateStock
    \/ \E id \in DOMAIN stocks : UpdateSingleStock(id)
    \/ \E id \in DOMAIN stocks : UpdateStockPrice(id)
    \/ \E id \in DOMAIN stocks : DeleteStock(id)
    \/ \E k \in DOMAIN deletedStocks : RestoreStock(k)

LifecycleSpec == LifecycleInit /\ [][LifecycleNext]_vars

(***************************************************************************)
(* Alert delivery: the hourly checkAndSendAlerts job and SendAlert.        *)
(***************************************************************************)
\* what the mail transport does with a message it is handed: accept it,
\* fail in transit, or answer with a status of 300 or above
TransportOutcomes == {"accepted", "error", "status"}

\* AlertService.SendAlert: without a key no message is handed to the
\* transport and nil is returned; otherwise the error is that of the
\* transport
SendAlert(c, outcome) ==
    IF ~c.SendGridAPIKey
    THEN [err |-> FALSE, outcome |-> "skipped"]
    ELSE [err |-> outcome # "accepted", outcome |-> outcome]

\* the selection as it would be if it passed over the oldest alert
UnsentSkippingFirst(rows) ==
    SelectSeq([n \in 1..Len(rows) |-> n],
              LAMBDA n : n > 1 /\ ~rows[n].EmailSent)

\* ids of the rows with email_sent = false, in primary-key order
Unsent(rows) == SelectSeq([n \in 1..Len(rows) |-> n],
                          LAMBDA n : ~rows[n].EmailSent)

\* the loop as it would be if the first transport failure ended the sweep
SweepLoopAbortingOnError(sw, err) ==
    IF sw.i < Len(sw.alerts) /\ ~err
    THEN [sw EXCEPT !.i = sw.i + 1]
    ELSE [sw EXCEPT !.pc = "idle"]

\* loop of checkAndSendAlerts: log, go to the next alert or end
SweepLoop(sw, err) ==
    IF sw.i < Len(sw.alerts)
    THEN [sw EXCEPT !.i = sw.i + 1]
    ELSE [sw EXCEPT !.pc = "idle"]

\* checkAndSendAlerts up to the loop: settings, unsent alerts
SweepStart ==
    /\ sweep.pc = "idle"
    /\ \E dbOk \in BOOLEAN :
         sweep' = IF ~settings.AlertsEnabled \/ ~dbOk
                     \/ Unsent(alerts) = <<>>
                  THEN IdleSweep
                  ELSE [IdleSweep EXCEPT !.pc = "send",
                                         !.alerts = Unsent(alerts), !.i = 1]
    /\ UNCHANGED <<cfg, stocks, history, alerts, settings, exchangeRateCache,
                   bulk, job, now, last, deletedStocks, summary, retry, aside>>

\* one iteration of the loop: SendAlert, and on nil the row is saved with
\* email_sent = true
SweepSend ==
    /\ sweep.pc = "send"
    /\ \E outcome \in (IF cfg.SendGridAPIKey THEN TransportOutcomes
                       ELSE {"skipped"}) :
         LET id == sweep.alerts[sweep.i]
             r  == SendAlert(cfg, outcome)
         IN  /\ alerts' = IF r.err THEN alerts
                          ELSE [alerts EXCEPT ![id].EmailSent = TRUE]
             /\ sweep' = SweepLoop(
                    [sweep EXCEPT !.log = Append(sweep.log,
                                                 <<id, r.outcome>>)],
                    r.err)
    /\ UNCHANGED <<cfg, stocks, history, settings, exchangeRateCache, bulk,
                   job, now, last, deletedStocks, summary, retry, aside>>

\* the service with a quote provider only: bulk refreshes, cadence jobs and
\* the delivery sweep
DeliveryInit ==
    /\ cfg \in [AlphaVantageAPIKey : {TRUE}, XAIAPIKey : {FALSE},
                ExchangeRatesAPIKey : {FALSE}, SendGridAPIKey : BOOLEAN]
    /\ stocks = [id \in StockIDs |-> NewStock(id)]
    /\ history = <<>>
    /\ alerts = <<>>
    /\ settings = [AlertsEnabled |-> TRUE,
                   AlertThresholdEV |-> I(DefaultAlertThreshold)]
    /\ exchangeRateCache = [s \in Services |-> <<>>]
    /\ bulk = IdleBatch
    /\ job = [t \in Tiers |-> IdleBatch]
    /\ now = 0
    /\ last = NoCall
    /\ sweep = IdleSweep
    /\ overlap = IdleSweep
    /\ deletedStocks = <<>>
    /\ summary = NoSummary
    /\ retry = NoRetry
    /\ access = NoAccess
    /\ calc = NoCalc

DeliveryNext ==
    \/ BulkStart
    \/ BulkFetch
    \/ BulkSave
    \/ BulkHistory
    \/ BulkAlert
    \/ \E tier \in Tiers : JobStart(tier)
    \/ \E tier \in Tiers : JobFetch(tier)
    \/ \E tier \in Tiers : JobSave(tier)
    \/ \E tier \in Tiers : JobHistory(tier)
    \/ \E tier \in Tiers : JobAlert(tier)
    \/ UpdateSettings
    \/ SweepStart
    \/ SweepSend

DeliverySpec == DeliveryInit /\ [][DeliveryNext]_vars

(***************************************************************************)
(* Properties of the data-sourcing pipeline.                               *)
(***************************************************************************)
Called == last.caller # "none"

\* fields the Unavailable state zeroes
SizingFields ==
    {"CurrentPrice", "FairValue", "Beta", "Volatility", "ProbabilityPositive",
     "DownsideRisk", "UpsidePotential", "BRatio", "ExpectedValue",
     "KellyFraction", "HalfKellySuggested", "BuyZoneMin", "BuyZoneMax"}
MarketFields ==
    SizingFields \cup {"PERatio", "EPSGrowthRate", "DebtToEBITDA",
                       "DividendYield"}

\* C1: a pipeline call that returns no error leaves as current_price a price
\* that the quantitative or the generative provider returned in that call.
C1_SuccessHasFreshPrice ==
    (Called /\ ~last.err) =>
        last.post.CurrentPrice \in (last.quotePrice \cup last.grokPrice)

\* C2: when the quantitative provider is configured and its quote gave no
\* price, and the generative provider is configured, the generative provider
\* has been invoked by the time the pipeline call returns.
C2_GrokInvokedAfterQuoteFailure ==
    (Called /\ cfg.AlphaVantageAPIKey /\ cfg.XAIAPIKey /\ last.avCalled
            /\ last.quotePrice = {}) => last.grokCalled

\* C3: with neither provider configured a pipeline call returns an error and
\* leaves the sizing fields 0 and the assessment at the Unavailable sentinel.
C3_NoProviderUnavailable ==
    (Called /\ ~cfg.AlphaVantageAPIKey /\ ~cfg.XAIAPIKey) =>
        /\ last.err
        /\ \A f \in SizingFields : last.post[f] = Zero
        /\ last.post.Assessment = Unavailable

C3_Witness ==
    /\ Called /\ ~cfg.AlphaVantageAPIKey /\ ~cfg.XAIAPIKey
    /\ last.caller = "single" /\ last.err
    /\ last.post.Assessment = Unavailable

\* C4: when the generative provider is called and its request fails on every
\* attempt, ends with a non-200 status or returns a body that does not
\* decode, the pipeline call returns an error and the position is in the
\* Unavailable state: market and derived fields 0, data_source "None", and
\* the sentinel assessment, which is none of Add, Hold, Trim, Sell.
C4_GrokFailureUnavailable ==
    (Called /\ last.grokCalled /\ last.grokFailed) =>
        /\ last.err
        /\ \A f \in MarketFields : last.post[f] = Zero
        /\ last.post.DataSource = "None"
        /\ last.post.Assessment = Unavailable
        /\ last.post.Assessment \notin Assessments

C4_Witness ==
    /\ Called /\ last.grokCalled /\ last.grokFailed /\ last.avCalled
    /\ last.err /\ last.post.DataSource = "None"

(***************************************************************************)
(* Properties of the stock handler's failure path.                         *)
(***************************************************************************)
\* fields a failed single-position refresh is to keep
KeptFields == MarketFields \cup {"Assessment"}

\* C5: a single-position refresh that fails in the pipeline leaves the
\* persisted row with the price, fair value, risk parameters and derived
\* metrics it had before the request.
C5_FailedRefreshKeepsValues ==
    [][(last'.at # last.at /\ last'.caller = "single" /\ last'.err) =>
           \A f \in KeptFields :
               stocks'[last'.id][f] = stocks[last'.id][f]]_vars

\* C6: a persisted row whose inputs were zeroed by the Unavailable fallback
\* (data_source "None") carries the sentinel assessment, never Add, Hold,
\* Trim or Sell.
C6_ZeroedRowHasSentinel ==
    \A id \in DOMAIN stocks :
        stocks[id].DataSource = "None" =>
            stocks[id].Assessment = Unavailable

(***************************************************************************)
(* Properties of the batches.                                              *)
(***************************************************************************)
Batches == {bulk} \cup {job[tier] : tier \in Tiers}

\* number of pipeline calls a batch has made for a position
FetchCount(b, id) ==
    Cardinality({n \in 1..Len(b.log) :
                     b.log[n][1] = id /\ b.log[n][2] = "fetch"})

\* positions the loop has left or is working on have been attempted once,
\* the others not yet; a finished batch has attempted every selected one
AttemptedOnce(b) ==
    \A k \in 1..Len(b.stocks) :
        FetchCount(b, b.stocks[k].ID) =
            IF b.pc = "idle" \/ k < b.i \/ (k = b.i /\ b.pc # "fetch")
            THEN 1 ELSE 0

\* steps a batch in flight has left if nothing fails: those of the current
\* position and the four steps of every position after it
StepsLeft(b) ==
    IF b.pc = "idle" THEN 0
    ELSE (Len(b.stocks) - b.i) * Cardinality({"fetch", "save", "history",
                                               "alert"})
         + (CASE b.pc = "fetch" -> 4 [] b.pc = "save" -> 3
              [] b.pc = "history" -> 2 [] b.pc = "alert" -> 1)

\* a batch in flight stands at a step of one of its positions; the step
\* actions are guarded by that alone (every answer of a provider or of the
\* database lets the step end), so its next step can always be taken
CanStep(b) ==
    b.pc # "idle" =>
        /\ b.pc \in {"fetch", "save", "history", "alert"}
        /\ b.i \in 1..Len(b.stocks)

\* C7: a batch attempts every selected position exactly once and reaches
\* completion, whichever positions fail in the pipeline or in persistence:
\* a batch in flight can always take its next step, whatever failed before,
\* and every step it takes brings it closer to completion.
C7_BatchAttemptsAllAndCompletes ==
    /\ [](\A b \in Batches : AttemptedOnce(b) /\ CanStep(b))
    /\ [][/\ (bulk.pc # "idle" /\ bulk' # bulk) =>
                 StepsLeft(bulk') < StepsLeft(bulk)
          /\ \A tier \in Tiers :
                 (job[tier].pc # "idle" /\ job'[tier] # job[tier]) =>
                     StepsLeft(job'[tier]) < StepsLeft(job[tier])]_vars

C7_Witness ==
    /\ bulk.pc = "idle" /\ Len(bulk.stocks) >= 2
    /\ bulk.log[1] = <<bulk.stocks[1].ID, "fetch", FALSE>>
    /\ \E n \in 1..Len(bulk.log) :
           bulk.log[n] = <<bulk.stocks[2].ID, "save", TRUE>>

\* positions of a batch whose refresh and persist both succeeded / that failed
Succeeded(b) ==
    {k \in 1..Len(b.stocks) :
         \E n, m \in 1..Len(b.log) :
             /\ b.log[n] = <<b.stocks[k].ID, "fetch", TRUE>>
             /\ b.log[m] = <<b.stocks[k].ID, "save", TRUE>>}
Failed(b) ==
    {k \in 1..Len(b.stocks) :
         \E n \in 1..Len(b.log) :
             b.log[n][1] = b.stocks[k].ID /\ ~b.log[n][3]}

\* C8: the response of a completed UpdateAllStocks has updated + errors =
\* total, total the number of selected positions, updated the number of
\* positions whose refresh and persist both succeeded, errors the number of
\* positions that failed.
C8_CountsAddUp ==
    (bulk.pc = "idle" /\ bulk.reply.status = 200) =>
        /\ bulk.reply.updated + bulk.reply.errors = bulk.reply.total
        /\ bulk.reply.total = Len(bulk.stocks)
        /\ bulk.reply.updated = Cardinality(Succeeded(bulk))
        /\ bulk.reply.errors = Cardinality(Failed(bulk))

C8_Witness ==
    /\ bulk.pc = "idle" /\ bulk.reply.status = 200
    /\ bulk.reply.updated = 1 /\ bulk.reply.errors = 1

\* the steps logged by a batch follow, position by position, the order
\* fetch, save, history, alert: a step is preceded by the successful step
\* before it, and a fetch by the end of the previous position
OrderedLog(b) ==
    \A n \in 1..Len(b.log) :
        LET e == b.log[n]
        IN  CASE e[2] = "fetch" ->
                   \/ n = 1
                   \/ /\ b.log[n - 1][1] # e[1]
                      /\ (b.log[n - 1][2] = "alert" \/ ~b.log[n - 1][3])
              [] e[2] = "save" ->
                   n > 1 /\ b.log[n - 1] = <<e[1], "fetch", TRUE>>
              [] e[2] = "history" ->
                   n > 1 /\ b.log[n - 1] = <<e[1], "save", TRUE>>
              [] e[2] = "alert" ->
                   n > 1 /\ b.log[n - 1] = <<e[1], "history", TRUE>>

\* C9: the steps of every position of a batch occur in the order refresh,
\* persist, history append, alert evaluation; history is appended only after
\* a successful persist, alerts are evaluated only after the history append,
\* and the next position starts only after the current one was left.
C9_StepsInOrder == \A b \in Batches : OrderedLog(b)

C9_Witness ==
    \E tier \in Tiers :
        /\ Len(job[tier].log) >= 5
        /\ job[tier].log[4][2] = "alert"
        /\ job[tier].log[5][2] = "fetch"
        /\ job[tier].log[5][1] # job[tier].log[4][1]

(***************************************************************************)
(* Properties of the alert evaluation.                                     *)
(***************************************************************************)
EvChangeAlerts(rows) ==
    Cardinality({n \in 1..Len(rows) : rows[n].AlertType = "ev_change"})

\* ev_change alerts a refresh is to emit for an EV that went from old to new
ExpectedEvAlerts(old, new) ==
    IF RGt(RAbs(RSub(new, old)), settings.AlertThresholdEV) THEN 1 ELSE 0

\* C10: with alerts enabled, the alert evaluation that follows a successful
\* refresh emits exactly one ev_change alert if |new EV - EV before the
\* refresh| is strictly greater than the threshold stored in the settings
\* row, and none otherwise, on the handler path and on the scheduled path.
C10_EvAlertFollowsStoredThreshold ==
    [][settings.AlertsEnabled =>
         LET emitted == EvChangeAlerts(alerts') - EvChangeAlerts(alerts)
         IN  /\ (bulk.pc = "alert" /\ bulk' # bulk) =>
                    emitted = ExpectedEvAlerts(
                                  bulk.oldEV,
                                  bulk.stocks[bulk.i].ExpectedValue)
             /\ \A tier \in Tiers :
                    (job[tier].pc = "alert" /\ job'[tier] # job[tier]) =>
                        emitted = ExpectedEvAlerts(
                                      job[tier].oldEV,
                                      job[tier].stocks[job[tier].i]
                                          .ExpectedValue)
             /\ (last'.at # last.at /\ last'.caller = "single"
                     /\ Len(history') > Len(history)) =>
                    emitted = ExpectedEvAlerts(
                                  stocks[last'.id].ExpectedValue,
                                  stocks'[last'.id].ExpectedValue)]_vars

BuyZoneAlerts(rows) ==
    Cardinality({n \in 1..Len(rows) : rows[n].AlertType = "buy_zone"})

\* buy_zone alerts a refresh is to emit for the row it persisted
ExpectedBuyZoneAlerts(stock) ==
    IF RLe(stock.BuyZoneMin, stock.CurrentPrice)
       /\ RLe(stock.CurrentPrice, stock.BuyZoneMax)
    THEN 1 ELSE 0

\* C11: the alert evaluation that follows a successful refresh emits one
\* buy_zone alert if buy_zone_min <= current_price <= buy_zone_max and none
\* otherwise, on the handler path (bulk and single refresh) and on the
\* scheduled path, whether or not an ev_change alert is emitted with it.
C11_BuyZoneAlertIffInZone ==
    [][LET emitted == BuyZoneAlerts(alerts') - BuyZoneAlerts(alerts)
       IN  /\ (bulk.pc = "alert" /\ bulk' # bulk) =>
                  emitted = ExpectedBuyZoneAlerts(bulk.stocks[bulk.i])
           /\ \A tier \in Tiers :
                  (job[tier].pc = "alert" /\ job'[tier] # job[tier]) =>
                      emitted = ExpectedBuyZoneAlerts(
                                    job[tier].stocks[job[tier].i])
           /\ (last'.at # last.at /\ last'.caller = "single"
                   /\ Len(history') > Len(history)) =>
                  emitted = ExpectedBuyZoneAlerts(stocks'[last'.id])]_vars

\* the scheduled path alone: its alert evaluation emits the buy_zone alert
\* exactly for a price inside the zone
SchedulerBuyZoneAlertIffInZone ==
    [][\A tier \in Tiers :
          (job[tier].pc = "alert" /\ job'[tier] # job[tier]) =>
              BuyZoneAlerts(alerts') - BuyZoneAlerts(alerts) =
                  ExpectedBuyZoneAlerts(job[tier].stocks[job[tier].i])]_vars

\* a handler refresh persisted a row with a positive price inside its zone
HandlerRowInBuyZone ==
    /\ last.caller = "single" /\ ~last.err
    /\ RGt(stocks[last.id].CurrentPrice, Zero)
    /\ ExpectedBuyZoneAlerts(stocks[last.id]) = 1

(***************************************************************************)
(* Properties of the alert delivery.                                       *)
(***************************************************************************)
\* the entry the sweep logged last
LastSent(sw) == sw.log[Len(sw.log)]

\* every row added to the alerts table has email_sent = false
CreatedUndelivered ==
    [][/\ Len(alerts') >= Len(alerts)
       /\ \A n \in (Len(alerts) + 1)..Len(alerts') : ~alerts'[n].EmailSent]_vars

\* C12: an alert is created with email_sent = false, and the flag of an
\* alert goes from false to true only in a step of a delivery sweep that
\* handed this alert to the transport and had it accepted; in particular
\* not when no message was handed to the transport.
C12_DeliveredOnlyWhenAccepted ==
    [][/\ Len(alerts') >= Len(alerts)
       /\ \A n \in (Len(alerts) + 1)..Len(alerts') : ~alerts'[n].EmailSent
       /\ \A n \in 1..Len(alerts) :
              (~alerts[n].EmailSent /\ alerts'[n].EmailSent) =>
                  /\ sweep.pc = "send"
                  /\ sweep.alerts[sweep.i] = n
                  /\ LastSent(sweep') = <<n, "accepted">>]_vars

\* the sweep attempts the alerts of its selection one by one, in order
SweepInOrder ==
    /\ Len(sweep.log) = IF sweep.pc = "send" THEN sweep.i - 1
                        ELSE Len(sweep.alerts)
    /\ \A k \in 1..Len(sweep.log) : sweep.log[k][1] = sweep.alerts[k]

\* C13: a step of the delivery sweep whose transport fails leaves the
\* alert undelivered and the sweep moves on to the next alert of its
\* selection, so that every selected alert is attempted; no step of the
\* sweep changes a refresh batch or keeps one from taking its next step.
C13_TransportFailureSkipsAlertOnly ==
    /\ [](SweepInOrder /\ \A b \in Batches : CanStep(b))
    /\ [][(sweep.pc = "send" /\ sweep' # sweep) =>
             /\ LastSent(sweep')[1] = sweep.alerts[sweep.i]
             /\ LastSent(sweep')[2] \in {"error", "status"} =>
                    /\ alerts' = alerts
                    /\ ~alerts'[sweep.alerts[sweep.i]].EmailSent
             /\ sweep.i < Len(sweep.alerts) =>
                    sweep'.pc = "send" /\ sweep'.i = sweep.i + 1
             /\ bulk' = bulk /\ job' = job
             /\ stocks' = stocks /\ history' = history]_vars

\* a finished sweep whose first send failed: the alert is still unsent and
\* the alert after it was handed to the transport and delivered
C13_Witness ==
    /\ sweep.pc = "idle" /\ Len(sweep.log) >= 2
    /\ sweep.log[1][2] \in {"error", "status"}
    /\ ~alerts[sweep.log[1][1]].EmailSent
    /\ sweep.log[2][2] = "accepted"
    /\ alerts[sweep.log[2][1]].EmailSent

\* a send of the sweep has failed while a refresh batch is in flight
SweepFailedDuringBatch ==
    /\ sweep.log # <<>> /\ LastSent(sweep)[2] \in {"error", "status"}
    /\ \E b \in Batches : b.pc # "idle"

(***************************************************************************)
(* Properties of the history.                                              *)
(***************************************************************************)
\* snapshot e holds the metrics of row
SnapshotOf(e, row) ==
    /\ e.StockID = row.ID
    /\ e.CurrentPrice = row.CurrentPrice
    /\ e.FairValue = row.FairValue
    /\ e.ExpectedValue = row.ExpectedValue
    /\ e.KellyFraction = row.KellyFraction
    /\ e.Assessment = row.Assessment

\* steps of a kind that succeeded on position id in the log of a batch
Steps(b, id, step) ==
    Cardinality({k \in 1..Len(b.log) : b.log[k] = <<id, step, TRUE>>})

\* the step from b to c leaves the position b stands at
Leaves(b, c) == b.pc # "idle" /\ (c.pc = "idle" \/ c.i # b.i)

\* every refresh of a batch, as it leaves its position, has appended one
\* snapshot
BatchAlwaysAppends(b, c) ==
    Leaves(b, c) => Steps(c, b.stocks[b.i].ID, "history") = 1

BatchAppendsOnSuccess(b, c) ==
    /\ (b.pc = "save" /\ c.pc = "history") =>
           /\ stocks'[b.stocks[b.i].ID] = b.stocks[b.i]
           /\ c.stocks = b.stocks
           /\ history' = history
    /\ (b.pc = "history" /\ c # b) =>
           /\ Len(history') = Len(history) + 1
           /\ SubSeq(history', 1, Len(history)) = history
           /\ SnapshotOf(history'[Len(history')], b.stocks[b.i])
    /\ Leaves(b, c) =>
           /\ Steps(c, b.stocks[b.i].ID, "history") =
                  Steps(c, b.stocks[b.i].ID, "save")
           /\ Steps(c, b.stocks[b.i].ID, "history") <= 1

C15_HistoryAppendOnly ==
    [][/\ Len(history') >= Len(history)
       /\ SubSeq(history', 1, Len(history)) = history
       /\ \A id \in 1..(1 + MaxCreated) :
              SelectSeq(history, LAMBDA e : e.StockID = id) =
                  SubSeq(SelectSeq(history', LAMBDA e : e.StockID = id), 1,
                         Len(SelectSeq(history, LAMBDA e : e.StockID = id)))
      ]_vars

\* a position with two snapshots was deleted and restored: the snapshots
\* are still stored, under the primary key the position had
C15_Witness ==
    /\ deletedStocks # <<>>
    /\ deletedStocks[1].RestoredAt # 0
    /\ deletedStocks[1].StockData.ID \notin DOMAIN stocks
    /\ Len(SelectSeq(history,
               LAMBDA e : e.StockID = deletedStocks[1].StockData.ID)) = 2


(***************************************************************************)
(* The retry loop of the generative-provider request, one client.Do or one *)
(* time.Sleep per step.                                                    *)
(***************************************************************************)
\* the outcome of one client.Do
AttemptOutcomes == {"err", "status", "ok"}

\* every sequence of outcomes the provider can give to the loop's attempts
AttemptScripts == [1..GrokAttempts -> AttemptOutcomes]

\* err == nil && resp != nil && resp.StatusCode == http.StatusOK
AttemptBreaks(outcome) == outcome = "ok"

\* the loop as it would be if it slept after every failed attempt
SleepsAfterEveryAttempt(i) == TRUE

\* if i < 2: the loop sleeps after a failed attempt unless it was the last
SleepsAfterAttempt(i) == i < GrokAttempts - 1

\* time.Duration(1<<uint(i)) * time.Second, in seconds
BackoffSeconds(i) == 2 ^ i

\* resp, err = s.client.Do(req) and the tests that follow it in the loop body
GrokDo ==
    /\ retry.pc = "do"
    /\ retry.i < GrokAttempts
    /\ LET outcome == retry.script[retry.i + 1]
       IN  retry' = [retry EXCEPT
                       !.attempts = @ + 1,
                       !.final = outcome,
                       !.i = IF ~AttemptBreaks(outcome)
                                /\ ~SleepsAfterAttempt(retry.i)
                             THEN @ + 1 ELSE @,
                       !.pc = IF AttemptBreaks(outcome) THEN "done"
                              ELSE IF SleepsAfterAttempt(retry.i) THEN "sleep"
                              ELSE IF retry.i + 1 < GrokAttempts THEN "do"
                              ELSE "done"]
    /\ UNCHANGED <<cfg, stocks, history, alerts, settings, exchangeRateCache,
                   bulk, job, now, last, sweep, deletedStocks, summary, aside>>

\* time.Sleep of the backoff, then i++
GrokSleep ==
    /\ retry.pc = "sleep"
    /\ retry' = [retry EXCEPT
                   !.sleeps = Append(@, BackoffSeconds(retry.i)),
                   !.i = @ + 1,
                   !.pc = IF retry.i + 1 < GrokAttempts THEN "do" ELSE "done"]
    /\ UNCHANGED <<cfg, stocks, history, alerts, settings, exchangeRateCache,
                   bulk, job, now, last, sweep, deletedStocks, summary, aside>>

\* a request about to enter the loop, for every script of outcomes
RetryInit ==
    /\ cfg = [AlphaVantageAPIKey |-> FALSE, XAIAPIKey |-> TRUE,
              ExchangeRatesAPIKey |-> FALSE, SendGridAPIKey |-> FALSE]
    /\ stocks = [id \in StockIDs |-> NewStock(id)]
    /\ history = <<>>
    /\ alerts = <<>>
    /\ settings = [AlertsEnabled |-> TRUE,
                   AlertThresholdEV |-> I(DefaultAlertThreshold)]
    /\ exchangeRateCache = [s \in Services |-> <<>>]
    /\ bulk = IdleBatch
    /\ job = [t \in Tiers |-> IdleBatch]
    /\ now = 0
    /\ last = NoCall
    /\ sweep = IdleSweep
    /\ overlap = IdleSweep
    /\ deletedStocks = <<>>
    /\ summary = NoSummary
    /\ retry \in { [NoRetry EXCEPT !.pc = "do", !.script = s] :
                       s \in AttemptScripts }
    /\ access = NoAccess
    /\ calc = NoCalc

RetryNext == GrokDo \/ GrokSleep

RetrySpec == RetryInit /\ [][RetryNext]_vars

\* index of the first attempt of the script answered with status 200, or 0
FirstOk(script) ==
    IF \E k \in DOMAIN script : script[k] = "ok"
    THEN CHOOSE k \in DOMAIN script :
             script[k] = "ok" /\ \A j \in 1..(k - 1) : script[j] # "ok"
    ELSE 0

\* C16: the generative-provider request is attempted at most 3 times, the
\* wait before the second attempt is 1 second and before the third 2
\* seconds, no attempt follows the first attempt answered with HTTP 200, no
\* wait follows the last attempt, and the loop run step by step ends as the
\* pipeline's GrokRetry says it does
C16_BoundedBackoff ==
    /\ retry.attempts <= 3
    /\ Len(retry.sleeps) <= 2
    /\ \A k \in DOMAIN retry.sleeps : retry.sleeps[k] = k
    /\ retry.pc = "do" => Len(retry.sleeps) = retry.attempts
    /\ \A k \in 1..(retry.attempts - 1) : retry.script[k] # "ok"
    /\ retry.pc = "done" =>
          /\ Len(retry.sleeps) = retry.attempts - 1
          /\ retry.attempts = IF FirstOk(retry.script) # 0
                              THEN FirstOk(retry.script) ELSE 3
          /\ GrokRetry(retry.script, 0, <<>>) =
                 [attempts |-> retry.attempts, sleeps |-> retry.sleeps,
                  final |-> retry.final]

\* a request that failed twice, waited 1 and 2 seconds, and ended at its
\* third attempt
C16_Witness ==
    /\ retry.pc = "done"
    /\ retry.attempts = 3
    /\ retry.sleeps = <<1, 2>>
    /\ retry.final = "ok"

\* C17: no attempt follows an attempt that was answered with a non-200
\* status
C17_StatusNotRetried ==
    \A k \in 1..(retry.attempts - 1) : retry.script[k] # "status"


\* the service whose pipeline the latest call ran on
ServiceOfLast ==
    IF last.caller = "job" THEN "scheduler" ELSE "stock_handler"

\* the latest call was answered by the generative provider with a usable
\* analysis that carries the positive conversion rate r
GrokEmitted(r) ==
    /\ last.caller # "none"
    /\ last.grokCalled /\ ~last.err
    /\ last.grokRate = {r}
    /\ RGt(r, Zero)

CurrenciesOf(rows) == {rows[id].Currency : id \in DOMAIN rows}

\* FetchAllExchangeRates on a service holding cache; fx[c] is the answer of
\* the FX-rate provider if it is asked for c
FetchAllExchangeRates(c, cache, currencies, fx) ==
    [cur \in currencies \cup {"USD"} |->
        IF cur = "USD" THEN I(1)
        ELSE IF FetchExchangeRate(c, cache, cur, fx[cur]).err THEN I(1)
        ELSE FetchExchangeRate(c, cache, cur, fx[cur]).rate]

\* fxRates[stock.Currency], 1.0 if the map has no rate or a zero rate
RateOf(fxRates, currency) ==
    IF currency \in DOMAIN fxRates /\ fxRates[currency] # Zero
    THEN fxRates[currency] ELSE I(1)

\* float64(SharesOwned) * CurrentPrice * fxRate
ValueUSD(stock, fxRates) ==
    RMul(RMul(I(stock.SharesOwned), stock.CurrentPrice),
         RateOf(fxRates, stock.Currency))

\* totalValue of CalculatePortfolioMetrics over the rows ids
RECURSIVE TotalValue(_, _, _)
TotalValue(rows, ids, fxRates) ==
    IF ids = {} THEN Zero
    ELSE RAdd(ValueUSD(rows[MaxOf(ids)], fxRates),
              TotalValue(rows, ids \ {MaxOf(ids)}, fxRates))

\* float64 values that are no numbers: 0/0 and the two infinities
NaN == <<0, 0>>
IsNum(x) == x[2] # 0

\* x / y of two numbers, y not zero, the common divisors gn of the
\* numerators and gd of the denominators cancelled first
RQuot(x, y, gn, gd) ==
    Norm((x[1] \div gn) * (y[2] \div gd), (x[2] \div gd) * (y[1] \div gn))

\* float64 division: x/0 is an infinity of the sign of x, 0/0 is NaN
FDiv(x, y) ==
    IF x = NaN \/ y = NaN THEN NaN
    ELSE IF ~IsNum(x) THEN (IF ~IsNum(y) THEN NaN
                            ELSE IF y[1] < 0 THEN <<-x[1], 0>> ELSE x)
    ELSE IF ~IsNum(y) THEN Zero
    ELSE IF y = Zero THEN <<Sign(x[1]), 0>>
    ELSE RQuot(x, y, GCD(Abs(x[1]), Abs(y[1])), GCD(x[2], y[2]))

\* float64 multiplication: NaN is absorbing, infinity times zero is NaN
FMul(x, y) ==
    IF IsNum(x) /\ IsNum(y) THEN RMul(x, y)
    ELSE IF x = NaN \/ y = NaN \/ x = Zero \/ y = Zero THEN NaN
    ELSE <<Sign(x[1]) * Sign(y[1]), 0>>

\* x + y of two numbers over the least common denominator, g being the
\* greatest common divisor of the denominators
RSum(x, y, g) ==
    Norm(x[1] * (y[2] \div g) + y[1] * (x[2] \div g), (x[2] \div g) * y[2])

\* float64 addition: NaN is absorbing, opposite infinities give NaN
FAdd(x, y) ==
    IF IsNum(x) /\ IsNum(y) THEN RSum(x, y, GCD(x[2], y[2]))
    ELSE IF x = NaN \/ y = NaN THEN NaN
    ELSE IF ~IsNum(x) /\ ~IsNum(y) /\ x # y THEN NaN
    ELSE IF IsNum(x) THEN y ELSE x

\* x > 0 on float64: false for NaN
FPositive(x) == x # NaN /\ x[1] > 0

\* sectorWeights[sector] += w on a Go map (a missing key reads as 0)
SectorAdd(m, sector, w) ==
    [s \in DOMAIN m \cup {sector} |->
        IF s = sector
        THEN FAdd(IF s \in DOMAIN m THEN m[s] ELSE Zero, w)
        ELSE m[s]]

\* the accumulators of CalculatePortfolioMetrics before its first loop
NoTotals ==
    [totalValue |-> Zero, weightedEV |-> Zero, weightedVolatility |-> Zero,
     sectorWeights |-> [s \in {} |-> Zero]]

\* the accumulations of one iteration, weight being valueUSD / totalValue
\* with the totalValue of the rows seen so far
Accumulate(acc, stock, total, weight) ==
    [totalValue |-> total,
     weightedEV |-> FAdd(acc.weightedEV, FMul(stock.ExpectedValue, weight)),
     weightedVolatility |->
         FAdd(acc.weightedVolatility, FMul(stock.Volatility, weight)),
     sectorWeights |->
         SectorAdd(acc.sectorWeights, stock.Sector, FMul(weight, I(100)))]

\* one iteration of the first loop: totalValue += valueUSD, then the weight
LoopBody(acc, stock, valueUSD) ==
    Accumulate(acc, stock, FAdd(acc.totalValue, valueUSD),
               FDiv(valueUSD, FAdd(acc.totalValue, valueUSD)))

\* the first loop over the rows ids, in the order of their keys
RECURSIVE PortfolioLoop(_, _, _)
PortfolioLoop(rows, ids, fxRates) ==
    IF ids = {} THEN NoTotals
    ELSE LoopBody(PortfolioLoop(rows, ids \ {MaxOf(ids)}, fxRates),
                  rows[MaxOf(ids)], ValueUSD(rows[MaxOf(ids)], fxRates))

\* the second loop taking every position's weight as 100: the utilization
\* as it would be were it the number of positions
RECURSIVE KellyUtilizationCounting(_, _, _, _)
KellyUtilizationCounting(rows, ids, fxRates, total) ==
    IF ids = {} THEN Zero
    ELSE FAdd(KellyUtilizationCounting(rows, ids \ {MaxOf(ids)}, fxRates,
                                       total),
              I(100))

\* the second loop: the sum of (valueUSD / totalValue) * 100 over the rows
RECURSIVE KellyUtilization(_, _, _, _)
KellyUtilization(rows, ids, fxRates, total) ==
    IF ids = {} THEN Zero
    ELSE FAdd(KellyUtilization(rows, ids \ {MaxOf(ids)}, fxRates, total),
              FMul(FDiv(ValueUSD(rows[MaxOf(ids)], fxRates), total),
                   I(100)))

\* the PortfolioMetrics returned from the accumulators acc
MetricsOf(acc, kellyUtilization) ==
    [TotalValue |-> acc.totalValue,
     OverallEV |-> acc.weightedEV,
     WeightedVolatility |-> acc.weightedVolatility,
     SharpeRatio |-> IF FPositive(acc.weightedVolatility)
                     THEN FDiv(acc.weightedEV, acc.weightedVolatility)
                     ELSE Zero,
     KellyUtilization |-> kellyUtilization,
     SectorWeights |-> acc.sectorWeights]

CalculatePortfolioMetricsFrom(rows, fxRates, acc) ==
    MetricsOf(acc, KellyUtilization(rows, DOMAIN rows, fxRates,
                                    acc.totalValue))

CalculatePortfolioMetrics(rows, fxRates) ==
    CalculatePortfolioMetricsFrom(rows, fxRates,
                                  PortfolioLoop(rows, DOMAIN rows, fxRates))

\* the weights as they would be saved were they fractions of one
WithWeightsAsFractions(rows, fxRates, total) ==
    IF RGt(total, Zero)
    THEN [id \in DOMAIN rows |->
             [rows[id] EXCEPT
                !.Weight = RDiv(ValueUSD(rows[id], fxRates), total)]]
    ELSE rows

\* the rows with the weights the summary saves
WithWeights(rows, fxRates, total) ==
    IF RGt(total, Zero)
    THEN [id \in DOMAIN rows |->
             [rows[id] EXCEPT
                !.Weight = RMul(RDiv(ValueUSD(rows[id], fxRates), total),
                                I(100))]]
    ELSE rows

\* what GetPortfolioSummary leaves having used fxRates
Summarized(fxRates) ==
    /\ stocks' = WithWeights(stocks, fxRates,
                             TotalValue(stocks, DOMAIN stocks, fxRates))
    /\ summary' = [served |-> TRUE, fxRates |-> fxRates,
                   TotalValue |-> TotalValue(stocks, DOMAIN stocks, fxRates),
                   caches |-> exchangeRateCache,
                   metrics |-> CalculatePortfolioMetrics(stocks, fxRates),
                   stocks |-> WithWeights(
                                  stocks, fxRates,
                                  TotalValue(stocks, DOMAIN stocks, fxRates))]

\* GET /portfolio/summary
GetPortfolioSummary ==
    /\ \E dbOk \in BOOLEAN :
         IF ~dbOk THEN UNCHANGED <<stocks, summary>>
         ELSE \E fx \in [CurrenciesOf(stocks) \ {"USD"} -> FxResponses(cfg)] :
                  Summarized(FetchAllExchangeRates(
                                 cfg, exchangeRateCache["portfolio_handler"],
                                 CurrenciesOf(stocks), fx))
    /\ UNCHANGED <<cfg, history, alerts, settings, exchangeRateCache, bulk,
                   job, now, last, sweep, deletedStocks, retry, aside>>

\* no key of the quantitative provider; the keys of the generative and of
\* the FX-rate provider may be set
SummaryInit ==
    /\ cfg \in [AlphaVantageAPIKey : {FALSE}, XAIAPIKey : BOOLEAN,
                ExchangeRatesAPIKey : BOOLEAN, SendGridAPIKey : {FALSE}]
    /\ stocks = [id \in StockIDs |-> NewStock(id)]
    /\ history = <<>>
    /\ alerts = <<>>
    /\ settings = [AlertsEnabled |-> TRUE,
                   AlertThresholdEV |-> I(DefaultAlertThreshold)]
    /\ exchangeRateCache = [s \in Services |-> <<>>]
    /\ bulk = IdleBatch
    /\ job = [t \in Tiers |-> IdleBatch]
    /\ now = 0
    /\ last = NoCall
    /\ sweep = IdleSweep
    /\ overlap = IdleSweep
    /\ deletedStocks = <<>>
    /\ summary = NoSummary
    /\ retry = NoRetry
    /\ access = NoAccess
    /\ calc = NoCalc

SummaryNext ==
    \/ \E id \in StockIDs : UpdateSingleStock(id)
    \/ \E tier \in Tiers : JobStart(tier)
    \/ \E tier \in Tiers : JobFetch(tier)
    \/ \E tier \in Tiers : JobSave(tier)
    \/ \E tier \in Tiers : JobHistory(tier)
    \/ \E tier \in Tiers : JobAlert(tier)
    \/ GetPortfolioSummary

SummarySpec == SummaryInit /\ [][SummaryNext]_vars

\* the rates the refreshing services held cached for currency c when the
\* latest summary was served
CachedByRefresh(c) ==
    {summary.caches[s][c] :
         s \in {t \in RefreshServices : c \in DOMAIN summary.caches[t]}}

\* C19: the rate a portfolio aggregation uses for a currency other than USD
\* is a rate a refresh has cached for it and that is still cached, whenever
\* there is one
C19_SummaryUsesCachedRate ==
    summary.served =>
        \A c \in DOMAIN summary.fxRates \ {"USD"} :
            CachedByRefresh(c) # {} => summary.fxRates[c] \in CachedByRefresh(c)


(***************************************************************************)
(* The scheduler's jobs over positions of any mix of cadence tiers.        *)
(***************************************************************************)
TierInit ==
    /\ cfg = [AlphaVantageAPIKey |-> TRUE, XAIAPIKey |-> FALSE,
              ExchangeRatesAPIKey |-> FALSE, SendGridAPIKey |-> FALSE]
    /\ \E frequency \in [StockIDs -> Tiers] :
           stocks = [id \in StockIDs |->
                        [NewStock(id) EXCEPT
                            !.UpdateFrequency = frequency[id]]]
    /\ history = <<>>
    /\ alerts = <<>>
    /\ settings = [AlertsEnabled |-> TRUE,
                   AlertThresholdEV |-> I(DefaultAlertThreshold)]
    /\ exchangeRateCache = [s \in Services |-> <<>>]
    /\ bulk = IdleBatch
    /\ job = [t \in Tiers |-> IdleBatch]
    /\ now = 0
    /\ last = NoCall
    /\ sweep = IdleSweep
    /\ overlap = IdleSweep
    /\ deletedStocks = <<>>
    /\ summary = NoSummary
    /\ retry = NoRetry
    /\ access = NoAccess
    /\ calc = NoCalc

TierNext ==
    \/ \E tier \in Tiers : JobStart(tier)
    \/ \E tier \in Tiers : JobFetch(tier)
    \/ \E tier \in Tiers : JobSave(tier)
    \/ \E tier \in Tiers : JobHistory(tier)
    \/ \E tier \in Tiers : JobAlert(tier)

TierSpec == TierInit /\ [][TierNext]_vars

\* the positions a job holds selected, and those its log shows a refresh of
SelectedBy(b) == {b.stocks[k].ID : k \in DOMAIN b.stocks}
RefreshedBy(b) == {b.log[k][1] : k \in {j \in DOMAIN b.log :
                                            b.log[j][2] = "fetch"}}

\* the stored positions whose update cadence is tier
PositionsOfTier(tier) ==
    {id \in DOMAIN stocks : stocks[id].UpdateFrequency = tier}

\* C20: a job triggered for tier T that found positions holds exactly the
\* positions of cadence T, refreshes none but those, and has refreshed
\* every one of them when it ends
C20_JobRefreshesExactlyItsTier ==
    \A tier \in Tiers :
        /\ job[tier].stocks # <<>> =>
               SelectedBy(job[tier]) = PositionsOfTier(tier)
        /\ RefreshedBy(job[tier]) \subseteq PositionsOfTier(tier)
        /\ job[tier].pc = "idle" =>
               RefreshedBy(job[tier]) = SelectedBy(job[tier])

\* a weekly job that ended having refreshed position 2 alone while
\* position 1 is of the daily tier
C20_Witness ==
    /\ stocks[1].UpdateFrequency = "daily"
    /\ stocks[2].UpdateFrequency = "weekly"
    /\ job["weekly"].pc = "idle"
    /\ RefreshedBy(job["weekly"]) = {2}


\* the tiers whose job is in its loop
RunningTiers == {tier \in Tiers : job[tier].pc # "idle"}

\* C21: the scheduler is idle or runs the batch of one tier: at no time are
\* the jobs of two tiers in their loops
C21_OneBatchAtATime == Cardinality(RunningTiers) <= 1


(***************************************************************************)
(* The cache map of a service under executions that run at the same time. *)
(* A map store or load of one goroutine is not atomic for another: it      *)
(* begins and ends, and another execution may be at the same map between   *)
(* the two.  A store or load that overlapped a conflicting access is a     *)
(* data race, whose outcome is not determined.                             *)
(***************************************************************************)
\* the executions other than e that are at the map of e's service
AtSameMap(e) ==
    {f \in Executions \ {e} :
         ServiceOf(f) = ServiceOf(e) /\ access.of[f].pc # "out"}

\* those of them that are storing
StoringAtSameMap(e) == {f \in AtSameMap(e) : access.of[f].pc = "store"}

\* the pairs the refresh of an execution may store: the currency of the
\* position the pipeline runs on and the mock rate or an emitted rate
StoresOf(e) ==
    IF ServiceOf(e) = "scheduler"
    THEN {<<"USD", r>> : r \in {getMockExchangeRate("USD"), <<27, 25>>}}
    ELSE UNION {{<<stocks[id].Currency, r>> :
                     r \in {getMockExchangeRate(stocks[id].Currency),
                            <<27, 25>>}} : id \in DOMAIN stocks}

\* the currencies FetchExchangeRate looks up in the map
LoadsOf(e) == {stocks[id].Currency : id \in DOMAIN stocks} \ {"USD"}

\* e enters the map with an access of kind pc; conflicting are the
\* executions in others
Entered(e, pc, currency, rate, conflicting) ==
    [access EXCEPT !.of =
        [f \in Executions |->
            IF f = e THEN [pc |-> pc, currency |-> currency, rate |-> rate,
                           raced |-> conflicting # {}]
            ELSE IF f \in conflicting THEN [access.of[f] EXCEPT !.raced = TRUE]
            ELSE access.of[f]]]

\* cacheExchangeRate with rate > 0 reaches s.exchangeRateCache[currency] =
BeginStore(e) ==
    /\ ~access.fatal
    /\ access.of[e].pc = "out"
    /\ \E w \in StoresOf(e) :
           /\ RGt(w[2], Zero)
           /\ access' = Entered(e, "store", w[1], w[2], AtSameMap(e))
    /\ UNCHANGED <<cfg, stocks, history, alerts, settings, exchangeRateCache,
                   bulk, job, now, last, sweep, deletedStocks, summary, retry,
                   calc,
                   overlap>>

\* what a map access that raced may come to: it takes effect, it is lost,
\* or the runtime ends the process (fatal error: concurrent map writes)
RaceOutcomes == {"done", "lost", "fatal"}

\* the store completes
EndStore(e) ==
    /\ ~access.fatal
    /\ access.of[e].pc = "store"
    /\ \E outcome \in (IF access.of[e].raced THEN RaceOutcomes ELSE {"done"}) :
           /\ access' = [access EXCEPT !.of[e] = Outside,
                                       !.fatal = (outcome = "fatal")]
           /\ exchangeRateCache' =
                  IF outcome = "done"
                  THEN [exchangeRateCache EXCEPT ![ServiceOf(e)] =
                            cacheExchangeRate(@, access.of[e].currency,
                                              access.of[e].rate)]
                  ELSE exchangeRateCache
    /\ UNCHANGED <<cfg, stocks, history, alerts, settings, bulk, job, now,
                   last, sweep, deletedStocks, summary, retry, calc,
                   overlap>>

\* getCachedExchangeRate reaches rate, ok := s.exchangeRateCache[currency]
BeginLoad(e) ==
    /\ ~access.fatal
    /\ access.of[e].pc = "out"
    /\ \E currency \in LoadsOf(e) :
           access' = Entered(e, "load", currency, Zero, StoringAtSameMap(e))
    /\ UNCHANGED <<cfg, stocks, history, alerts, settings, exchangeRateCache,
                   bulk, job, now, last, sweep, deletedStocks, summary, retry,
                   calc,
                   overlap>>

\* the load completes
EndLoad(e) ==
    /\ ~access.fatal
    /\ access.of[e].pc = "load"
    /\ \E outcome \in (IF access.of[e].raced THEN {"done", "fatal"}
                       ELSE {"done"}) :
           access' = [access EXCEPT !.of[e] = Outside,
                                    !.fatal = (outcome = "fatal")]
    /\ UNCHANGED <<cfg, stocks, history, alerts, settings, exchangeRateCache,
                   bulk, job, now, last, sweep, deletedStocks, summary, retry,
                   calc,
                   overlap>>

AccessInit ==
    /\ cfg = [AlphaVantageAPIKey |-> FALSE, XAIAPIKey |-> TRUE,
              ExchangeRatesAPIKey |-> FALSE, SendGridAPIKey |-> FALSE]
    /\ stocks = [id \in StockIDs |-> NewStock(id)]
    /\ history = <<>>
    /\ alerts = <<>>
    /\ settings = [AlertsEnabled |-> TRUE,
                   AlertThresholdEV |-> I(DefaultAlertThreshold)]
    /\ exchangeRateCache = [s \in Services |-> <<>>]
    /\ bulk = IdleBatch
    /\ job = [t \in Tiers |-> IdleBatch]
    /\ now = 0
    /\ last = NoCall
    /\ sweep = IdleSweep
    /\ overlap = IdleSweep
    /\ deletedStocks = <<>>
    /\ summary = NoSummary
    /\ retry = NoRetry
    /\ access = NoAccess
    /\ calc = NoCalc

AccessNext ==
    \E e \in Executions :
        BeginStore(e) \/ EndStore(e) \/ BeginLoad(e) \/ EndLoad(e)

AccessSpec == AccessInit /\ [][AccessNext]_vars

\* C22: no two executions are at the cache map of one service at the same
\* time with at least one of them storing
C22_MapAccessesSerialised ==
    \A e \in Executions :
        access.of[e].pc # "out" => StoringAtSameMap(e) = {}


\* the latest pipeline call was a single-position refresh of the stock
\* handler that succeeded and whose row was saved
SingleRefreshSaved ==
    /\ last.caller = "single"
    /\ ~last.err
    /\ last.saved

\* C23: after a successful refresh the fetched-at stamp of a provider is
\* that of this refresh only if the provider supplied data in it: the
\* generative provider's only if it was called and answered with a usable
\* analysis, the quantitative provider's only if it was called
C23_FetchedAtOnlyForSupplier ==
    SingleRefreshSaved =>
        /\ stocks[last.id].GrokFetchedAt = last.at =>
               last.grokCalled /\ ~last.grokFailed
        /\ stocks[last.id].AlphaVantageFetchedAt = last.at => last.avCalled


(***************************************************************************)
(* CalculateMetrics applied to positions of bounded raw inputs and stored  *)
(* derived fields.                                                         *)
(***************************************************************************)
\* raw inputs: current price, fair value, probability of a positive
\* outcome, downside risk (0 is unset) and beta
RawInputs ==
    {Zero, I(50), I(100)} \X {Zero, I(72), I(120)}
        \X {Zero, <<1, 5>>, <<13, 20>>, I(1)} \X {Zero, I(-20)}
        \X {<<2, 5>>, <<9, 5>>}

\* derived fields a row may hold stored from an earlier computation: none,
\* or those of an earlier state of the position
StoredDerived ==
    { [UpsidePotential |-> Zero, BRatio |-> Zero, KellyFraction |-> Zero,
       BuyZoneMin |-> Zero, BuyZoneMax |-> Zero],
      [UpsidePotential |-> I(25), BRatio |-> I(2), KellyFraction |-> I(40),
       BuyZoneMin |-> I(10), BuyZoneMax |-> I(20)] }

\* a position with the raw inputs of raw and the stored derived fields d
PositionOf(raw, d) ==
    [ZeroStock EXCEPT !.ID = 1, !.Ticker = TickerOf(1),
                      !.CurrentPrice = raw[1], !.FairValue = raw[2],
                      !.ProbabilityPositive = raw[3],
                      !.DownsideRisk = raw[4], !.Beta = raw[5],
                      !.UpsidePotential = d.UpsidePotential,
                      !.BRatio = d.BRatio,
                      !.KellyFraction = d.KellyFraction,
                      !.BuyZoneMin = d.BuyZoneMin,
                      !.BuyZoneMax = d.BuyZoneMax]

\* CalculateMetrics(&stock) on the position and on its twin, a position of
\* the same raw inputs and other stored derived fields
Compute ==
    /\ calc.pc = "input"
    /\ calc' = [calc EXCEPT !.pc = "once",
                            !.output = CalculateMetrics(calc.input),
                            !.twinOutput = CalculateMetrics(calc.twin)]
    /\ UNCHANGED <<cfg, stocks, history, alerts, settings, exchangeRateCache,
                   bulk, job, now, last, sweep, deletedStocks, summary, retry,
                   access,
                   overlap>>

\* CalculateMetrics(&stock) once more on the position it has returned
ComputeAgain ==
    /\ calc.pc = "once"
    /\ calc' = [calc EXCEPT !.pc = "twice",
                            !.again = CalculateMetrics(calc.output)]
    /\ UNCHANGED <<cfg, stocks, history, alerts, settings, exchangeRateCache,
                   bulk, job, now, last, sweep, deletedStocks, summary, retry,
                   access,
                   overlap>>

MetricsInit ==
    /\ cfg = [AlphaVantageAPIKey |-> FALSE, XAIAPIKey |-> FALSE,
              ExchangeRatesAPIKey |-> FALSE, SendGridAPIKey |-> FALSE]
    /\ stocks = [id \in StockIDs |-> NewStock(id)]
    /\ history = <<>>
    /\ alerts = <<>>
    /\ settings = [AlertsEnabled |-> TRUE,
                   AlertThresholdEV |-> I(DefaultAlertThreshold)]
    /\ exchangeRateCache = [s \in Services |-> <<>>]
    /\ bulk = IdleBatch
    /\ job = [t \in Tiers |-> IdleBatch]
    /\ now = 0
    /\ last = NoCall
    /\ sweep = IdleSweep
    /\ overlap = IdleSweep
    /\ deletedStocks = <<>>
    /\ summary = NoSummary
    /\ retry = NoRetry
    /\ access = NoAccess
    /\ \E raw \in RawInputs, d \in StoredDerived, e \in StoredDerived :
           /\ d # e
           /\ calc = [NoCalc EXCEPT !.pc = "input",
                                    !.input = PositionOf(raw, d),
                                    !.twin = PositionOf(raw, e)]

MetricsNext == Compute \/ ComputeAgain

MetricsSpec == MetricsInit /\ [][MetricsNext]_vars

\* CalculateMetrics has returned on the position
Computed == calc.pc \in {"once", "twice"}

\* C24: after compute, upside_potential is (fair_value - current_price) /
\* current_price * 100 if current_price > 0 and 0 otherwise, whatever the
\* field held before
C24_UpsideDefinedOrZero ==
    Computed =>
        calc.output.UpsidePotential =
            IF RGt(calc.input.CurrentPrice, Zero)
            THEN RMul(RDiv(RSub(calc.input.FairValue, calc.input.CurrentPrice),
                           calc.input.CurrentPrice), I(100))
            ELSE Zero

\* C25: compute sets an unset downside_risk from beta (-15 below 0.5, -20
\* below 1, -25 below 1.5, -30 from 1.5 on) and leaves a set one unchanged
C25_DownsideCalibratedFromBeta ==
    Computed =>
        calc.output.DownsideRisk =
            IF calc.input.DownsideRisk # Zero THEN calc.input.DownsideRisk
            ELSE IF RLt(calc.input.Beta, <<1, 2>>) THEN I(-15)
            ELSE IF RLt(calc.input.Beta, I(1)) THEN I(-20)
            ELSE IF RLt(calc.input.Beta, <<3, 2>>) THEN I(-25)
            ELSE I(-30)

\* the Kelly formula in percent on the b ratio and probability of a position
RawKelly(stock) ==
    RMul(RDiv(RSub(RMul(stock.BRatio, stock.ProbabilityPositive),
                   RSub(I(1), stock.ProbabilityPositive)),
              stock.BRatio), I(100))

\* C26: after compute, kelly_fraction is max(0, raw Kelly) when b_ratio > 0
\* and 0 when b_ratio <= 0, so it is never negative
C26_KellyFlooredAtZero ==
    Computed =>
        /\ RGe(calc.output.KellyFraction, Zero)
        /\ calc.output.KellyFraction =
               IF RGt(calc.output.BRatio, Zero)
               THEN IF RGt(RawKelly(calc.output), Zero)
                    THEN RawKelly(calc.output) ELSE Zero
               ELSE Zero

\* C27: after compute on a position with probability in [0, 1] and
\* downside_risk <= 0, half_kelly_suggested is min(kelly_fraction / 2, 15)
\* and lies in [0, 15]
C27_HalfKellyWithinBounds ==
    (/\ Computed
     /\ RGe(calc.input.ProbabilityPositive, Zero)
     /\ RLe(calc.input.ProbabilityPositive, I(1))
     /\ RLe(calc.input.DownsideRisk, Zero)) =>
        /\ calc.output.HalfKellySuggested =
               IF RGt(RDiv(calc.output.KellyFraction, I(2)), I(15))
               THEN I(15) ELSE RDiv(calc.output.KellyFraction, I(2))
        /\ RGe(calc.output.HalfKellySuggested, Zero)
        /\ RLe(calc.output.HalfKellySuggested, I(15))

C29_ComputeIdempotent ==
    calc.pc = "twice" => calc.again = calc.output

\* a position that held stale derived fields, was changed by the first
\* computation and left as it was by the second
C29_Witness ==
    /\ calc.pc = "twice"
    /\ calc.input.KellyFraction = I(40)
    /\ calc.output # calc.input
    /\ calc.again = calc.output
    /\ RGt(calc.output.KellyFraction, Zero)
    /\ calc.output.KellyFraction # I(40)

\* the derived metrics of a position
DerivedOf(stock) ==
    <<stock.UpsidePotential, stock.ExpectedValue, stock.BRatio,
      stock.KellyFraction, stock.HalfKellySuggested, stock.Assessment,
      stock.BuyZoneMin, stock.BuyZoneMax>>

\* C30: two positions of equal raw inputs and different stored derived
\* fields have equal derived metrics after compute
C30_DerivedDependOnRawOnly ==
    Computed => DerivedOf(calc.output) = DerivedOf(calc.twinOutput)


AggregateInputs ==
    [SharesOwned : {0, 1, 3}, CurrentPrice : {Zero, I(50)},
     ExpectedValue : {I(-4), I(10)}, Volatility : {Zero, I(20)}]

\* the row id carrying the inputs in; the first row is in USD and in the
\* sector of the rows the database starts with, the others are not
AggregateRow(id, in) ==
    [NewStock(id) EXCEPT
        !.Sector = IF id = 1 THEN "Healthcare" ELSE "Industrials",
        !.SharesOwned = in.SharesOwned, !.CurrentPrice = in.CurrentPrice,
        !.ExpectedValue = in.ExpectedValue, !.Volatility = in.Volatility]

\* any number of rows up to NumStocks, none included; only the key of the
\* FX-rate provider may be set
AggregateInit ==
    /\ cfg \in [AlphaVantageAPIKey : {FALSE}, XAIAPIKey : {FALSE},
                ExchangeRatesAPIKey : BOOLEAN, SendGridAPIKey : {FALSE}]
    /\ \E n \in 0..NumStocks :
         \E in \in [1..n -> AggregateInputs] :
             stocks = [id \in 1..n |-> AggregateRow(id, in[id])]
    /\ history = <<>>
    /\ alerts = <<>>
    /\ settings = [AlertsEnabled |-> TRUE,
                   AlertThresholdEV |-> I(DefaultAlertThreshold)]
    /\ exchangeRateCache = [s \in Services |-> <<>>]
    /\ bulk = IdleBatch
    /\ job = [t \in Tiers |-> IdleBatch]
    /\ now = 0
    /\ last = NoCall
    /\ sweep = IdleSweep
    /\ overlap = IdleSweep
    /\ deletedStocks = <<>>
    /\ summary = NoSummary
    /\ retry = NoRetry
    /\ access = NoAccess
    /\ calc = NoCalc

AggregateNext == GetPortfolioSummary

AggregateSpec == AggregateInit /\ [][AggregateNext]_vars

\* the sum of the weights the rows ids carry
RECURSIVE SumOfWeights(_, _)
SumOfWeights(rows, ids) ==
    IF ids = {} THEN Zero
    ELSE RAdd(rows[MaxOf(ids)].Weight,
              SumOfWeights(rows, ids \ {MaxOf(ids)}))

RECURSIVE WeightedByTotal(_, _, _, _, _)
WeightedByTotal(rows, ids, fxRates, total, field) ==
    IF ids = {} THEN Zero
    ELSE RAdd(RMul(rows[MaxOf(ids)][field],
                   RDiv(ValueUSD(rows[MaxOf(ids)], fxRates), total)),
              WeightedByTotal(rows, ids \ {MaxOf(ids)}, fxRates, total,
                              field))

\* C33: a summary of positive total value returns the expected value and
\* the volatility of the rows weighted by value over the total of all rows
C33_WeightedByFullTotal ==
    (summary.served /\ FPositive(summary.metrics.TotalValue)) =>
        /\ summary.metrics.OverallEV =
               WeightedByTotal(summary.stocks, DOMAIN summary.stocks,
                               summary.fxRates, summary.metrics.TotalValue,
                               "ExpectedValue")
        /\ summary.metrics.WeightedVolatility =
               WeightedByTotal(summary.stocks, DOMAIN summary.stocks,
                               summary.fxRates, summary.metrics.TotalValue,
                               "Volatility")

\* C34: a summary of total value zero returns every metric, every sector
\* weight and every position weight as zero
C34_ZeroTotalAllZero ==
    (summary.served /\ summary.metrics.TotalValue = Zero) =>
        /\ summary.metrics.OverallEV = Zero
        /\ summary.metrics.WeightedVolatility = Zero
        /\ summary.metrics.SharpeRatio = Zero
        /\ summary.metrics.KellyUtilization = Zero
        /\ \A s \in DOMAIN summary.metrics.SectorWeights :
               summary.metrics.SectorWeights[s] = Zero
        /\ \A id \in DOMAIN summary.stocks : summary.stocks[id].Weight = Zero

(***************************************************************************)
(* Edits of the sizing while a bulk refresh runs.                          *)
(***************************************************************************)

\* requests of PATCH /stocks/:id/field on the sizing: field and value
SizingEdits == {<<"SharesOwned", 25>>, <<"AvgPriceLocal", I(60)>>}

\* PATCH /stocks/:id/field for shares_owned or avg_price_local: read the
\* row, set the field, recompute the metrics and the USD values, save
UpdateStockField(id) ==
    /\ \E req \in SizingEdits, dbOk \in BOOLEAN, fx \in FxResponses(cfg) :
         LET s1 == CalculateMetrics([stocks[id] EXCEPT
                                        ![req[1]] = req[2],
                                        !.LastUpdated = now])
             r  == FetchExchangeRate(cfg, exchangeRateCache["stock_handler"],
                                     s1.Currency, fx)
         IN  stocks' = IF dbOk
                       THEN [stocks EXCEPT ![id] =
                                WithUSDValues(s1, IF r.err THEN I(1)
                                                  ELSE r.rate)]
                       ELSE stocks
    /\ UNCHANGED <<others, cfg, history, alerts, settings, exchangeRateCache,
                   bulk, job, now, last>>

\* the service with a quote provider only: bulk refreshes and edits of the
\* sizing
EditInit ==
    /\ cfg \in [AlphaVantageAPIKey : {TRUE}, XAIAPIKey : {FALSE},
                ExchangeRatesAPIKey : {FALSE}, SendGridAPIKey : {FALSE}]
    /\ stocks = [id \in StockIDs |-> NewStock(id)]
    /\ history = <<>>
    /\ alerts = <<>>
    /\ settings = [AlertsEnabled |-> TRUE,
                   AlertThresholdEV |-> I(DefaultAlertThreshold)]
    /\ exchangeRateCache = [s \in Services |-> <<>>]
    /\ bulk = IdleBatch
    /\ job = [t \in Tiers |-> IdleBatch]
    /\ now = 0
    /\ last = NoCall
    /\ sweep = IdleSweep
    /\ overlap = IdleSweep
    /\ deletedStocks = <<>>
    /\ summary = NoSummary
    /\ retry = NoRetry
    /\ access = NoAccess
    /\ calc = NoCalc

EditNext ==
    \/ BulkStart
    \/ BulkFetch
    \/ BulkSave
    \/ BulkHistory
    \/ BulkAlert
    \/ \E id \in StockIDs : UpdateStockField(id)

EditSpec == EditInit /\ [][EditNext]_vars

\* C35: the persist of a bulk refresh leaves the sizing of every row as it
\* is in the store, whatever sizing the batch read when it started
C35_BatchKeepsEditedSizing ==
    [][(bulk.pc = "save" /\ bulk' # bulk) =>
          \A id \in DOMAIN stocks :
              /\ stocks'[id].SharesOwned = stocks[id].SharesOwned
              /\ stocks'[id].AvgPriceLocal = stocks[id].AvgPriceLocal]_vars

\* C36: a pipeline call that ends in the unavailable fallback leaves the
\* rate cache of every service as it was
C36_FallbackKeepsRateCache ==
    [][(last'.at # last.at /\ last'.err) =>
          exchangeRateCache' = exchangeRateCache]_vars

\* the entry of batch b under way has fetched its data without error
EntryFetched(b) ==
    /\ b.pc # "idle"
    /\ \E k \in 1..Len(b.log) : b.log[k] = <<b.stocks[b.i].ID, "fetch", TRUE>>

\* the store outside the row id is left as it is, and so are the snapshots
\* and alerts of other rows
OnlyTouches(id) ==
    /\ \A other \in DOMAIN stocks \ {id} : stocks'[other] = stocks[other]
    /\ \A k \in Len(history) + 1..Len(history') : history'[k].StockID = id
    /\ \A k \in Len(alerts) + 1..Len(alerts') : alerts'[k].StockID = id

\* C37: a step of a batch changes rows, snapshots or alerts only for an
\* entry whose pipeline call succeeded, so an entry whose call failed leaves
\* its row as it was and gets no snapshot and no alert
C37_FailedEntryChangesNothing ==
    [][\A b \in {<<bulk, bulk'>>} \cup {<<job[t], job'[t]>> : t \in Tiers} :
          (b[2] # b[1] /\ <<stocks, history, alerts>>' #
                          <<stocks, history, alerts>>) =>
              (EntryFetched(b[1]) /\ OnlyTouches(b[1].stocks[b[1].i].ID))]_vars

\* a bulk refresh has ended in which the call for the first row failed and
\* the call for the second succeeded: the first row is as it was created
\* and has no snapshot
C37_Witness ==
    /\ bulk.pc = "idle"
    /\ \E k \in 1..Len(bulk.log) : bulk.log[k] = <<1, "fetch", FALSE>>
    /\ \E k \in 1..Len(bulk.log) : bulk.log[k] = <<2, "history", TRUE>>
    /\ stocks[1] = NewStock(1)
    /\ stocks[2] # NewStock(2)
    /\ \A k \in 1..Len(history) : history[k].StockID # 1
    /\ \A k \in 1..Len(alerts) : alerts[k].StockID # 1

\* C38: while alerts are disabled no step creates an alert and no step of
\* the delivery sweep attempts a delivery
C38_NothingWhileDisabled ==
    [][(~settings.AlertsEnabled /\ ~settings'.AlertsEnabled) =>
          /\ Len(alerts') = Len(alerts)
          /\ Len(sweep'.log) <= Len(sweep.log)]_vars

(***************************************************************************)
(* Two runs of the hourly delivery sweep at once.                          *)
(***************************************************************************)

\* the hourly job fires while the run before it is still in its loop: a
\* second checkAndSendAlerts reads the settings and the unsent alerts
OverlapStart ==
    /\ sweep.pc = "send"
    /\ overlap.pc = "idle"
    /\ \E dbOk \in BOOLEAN :
         overlap' = IF ~settings.AlertsEnabled \/ ~dbOk
                       \/ Unsent(alerts) = <<>>
                    THEN IdleSweep
                    ELSE [IdleSweep EXCEPT !.pc = "send",
                                           !.alerts = Unsent(alerts), !.i = 1]
    /\ UNCHANGED <<cfg, stocks, history, alerts, settings, exchangeRateCache,
                   bulk, job, now, last, sweep, deletedStocks, summary, retry,
                   access, calc>>

\* one iteration of the loop of the second run
OverlapSend ==
    /\ overlap.pc = "send"
    /\ \E outcome \in (IF cfg.SendGridAPIKey THEN TransportOutcomes
                       ELSE {"skipped"}) :
         LET id == overlap.alerts[overlap.i]
             r  == SendAlert(cfg, outcome)
         IN  /\ alerts' = IF r.err THEN alerts
                          ELSE [alerts EXCEPT ![id].EmailSent = TRUE]
             /\ overlap' = SweepLoop(
                    [overlap EXCEPT !.log = Append(overlap.log,
                                                   <<id, r.outcome>>)],
                    r.err)
    /\ UNCHANGED <<cfg, stocks, history, settings, exchangeRateCache, bulk,
                   job, now, last, sweep, deletedStocks, summary, retry,
                   access, calc>>

\* bulk refreshes creating alerts and the delivery sweep with a second run
OverlapNext ==
    \/ BulkStart
    \/ BulkFetch
    \/ BulkSave
    \/ BulkHistory
    \/ BulkAlert
    \/ SweepStart
    \/ SweepSend
    \/ OverlapStart
    \/ OverlapSend

OverlapSpec == DeliveryInit /\ [][OverlapNext]_vars

\* the alert a run hands to the transport in a step that the transport
\* accepts, none if the step is no such step
AcceptedIn(before, after) ==
    IF Len(after.log) = Len(before.log) + 1
       /\ after.log[Len(after.log)][2] = "accepted"
    THEN {after.log[Len(after.log)][1]}
    ELSE {}

\* C39: the delivered flag of an alert never returns to false, a run that
\* starts selects no delivered alert, and the transport accepts no alert
\* that is delivered already, so that it accepts each alert at most once
C39_AcceptedAtMostOnce ==
    [][/\ \A id \in 1..Len(alerts) :
              alerts[id].EmailSent => alerts'[id].EmailSent
       /\ \A run \in {<<sweep, sweep'>>, <<overlap, overlap'>>} :
              /\ (run[1].pc = "idle" /\ run[2].pc = "send") =>
                     \A k \in 1..Len(run[2].alerts) :
                         ~alerts[run[2].alerts[k]].EmailSent
              /\ \A id \in AcceptedIn(run[1], run[2]) :
                     ~alerts[id].EmailSent]_vars

(***************************************************************************)
(* The delivery sweep running for ever with alerts enabled.                *)
(***************************************************************************)

\* a run of the sweep that reads the settings and the alerts and enters
\* its loop
SweepSelects == SweepStart /\ sweep'.pc = "send"

\* an iteration of the loop in which the alert id is marked as sent
Delivers(id) ==
    /\ SweepSend
    /\ id \in 1..Len(alerts)
    /\ ~alerts[id].EmailSent
    /\ alerts'[id].EmailSent

\* bulk refreshes creating alerts, and the delivery sweep; the settings
\* are left as they start, with alerts enabled
SweepNext ==
    \/ BulkStart
    \/ BulkFetch
    \/ BulkSave
    \/ BulkHistory
    \/ BulkAlert
    \/ SweepStart
    \/ SweepSend

\* the hourly job keeps firing and reading the database, a run under way
\* goes on, and the transport does not refuse an alert for ever
SweepFairness ==
    /\ WF_vars(SweepSelects)
    /\ WF_vars(SweepSend)
    /\ \A id \in 1..MaxCalls : SF_vars(Delivers(id))

SweepSpec == DeliveryInit /\ [][SweepNext]_vars /\ SweepFairness

\* the alert whose send fails in this step of the sweep, none if the step
\* is no such step
FailedIn(before, after) ==
    IF Len(after.log) = Len(before.log) + 1
       /\ after.log[Len(after.log)][2] \in {"error", "status"}
    THEN {after.log[Len(after.log)][1]}
    ELSE {}

\* C40: every alert that is not sent is marked sent in the end; an alert
\* whose send fails stays unsent, and a run that enters its loop has
\* selected every unsent alert
C40_EveryAlertDelivered ==
    /\ \A id \in 1..MaxCalls :
           (id <= Len(alerts) /\ ~alerts[id].EmailSent)
               ~> (id <= Len(alerts) /\ alerts[id].EmailSent)
    /\ [][/\ \A id \in FailedIn(sweep, sweep') : ~alerts'[id].EmailSent
          /\ (sweep.pc = "idle" /\ sweep'.pc = "send") =>
                 \A id \in 1..Len(alerts) :
                     ~alerts[id].EmailSent =>
                         \E k \in 1..Len(sweep'.alerts) :
                             sweep'.alerts[k] = id]_vars

\* a run of the sweep in which the transport has accepted the first alert
\* and refused the second, which stays unsent
C40_Witness ==
    /\ Len(alerts) = 2
    /\ alerts[1].EmailSent
    /\ ~alerts[2].EmailSent
    /\ \E k \in 1..Len(sweep.log) : sweep.log[k] = <<1, "accepted">>
    /\ \E k \in 1..Len(sweep.log) : sweep.log[k][1] = 2
                                    /\ sweep.log[k][2] # "accepted"

=============================================================================
